---- MODULE Spec2Model ----
(***************************************************************************)
(* The JSON-RPC gateway of src/src/index.js: the POST /mcp dispatcher, its *)
(* two cache tiers (NodeCache memoryCache, Redis redisClient), the session *)
(* store (contextStore) and the handlers the dispatcher routes to.         *)
(*                                                                         *)
(* A request is a process.  One action is one run of JavaScript between    *)
(* two awaits: the event loop runs such a segment to completion before any *)
(* other request continues.                                                *)
(***************************************************************************)
EXTENDS Integers, Sequences, FiniteSets, TLC

VARIABLES
    reqs,          \* slot -> the request in flight in it (locals of app.post('/mcp'))
    memoryCache,   \* tier 1: cache key -> entry
    redisStore,    \* tier 2: cache key -> entry held by the Redis server
    redisClient,   \* TRUE when REDIS_URL is set (the client exists)
    contextStore,  \* session_id -> list of turns
    started,       \* number of requests received so far
    sent,          \* the response the step just taken sent, with what its request did
    history        \* session_id -> every turn appended to the session (history)

vars == <<reqs, memoryCache, redisStore, redisClient, contextStore,
          started, sent, history>>

(***************************************************************************)
(* Bounds of the model.                                                    *)
(***************************************************************************)
MaxRequests == 2

Slots == {"r1", "r2"}

(***************************************************************************)
(* JavaScript values, as far as the dispatcher looks at them.              *)
(***************************************************************************)
Undefined == [kind |-> "undefined", val |-> ""]

Null == [kind |-> "null", val |-> ""]

Str(s) == [kind |-> "string", val |-> s]

Num(n) == [kind |-> "number", val |-> n]

Bool(b) == [kind |-> "boolean", val |-> b]

Prop(k, v) == [key |-> k, value |-> v]

\* An object keeps its properties in insertion order.
Obj(props) == [kind |-> "object", val |-> props]

Arr(items) == [kind |-> "array", val |-> items]

\* ToBoolean: what `!x` and `if(x)` test.
Truthy(v) ==
    CASE v.kind = "undefined" -> FALSE
      [] v.kind = "null" -> FALSE
      [] v.kind = "string" -> v.val # ""
      [] v.kind = "number" -> v.val # 0
      [] v.kind = "boolean" -> v.val
      [] OTHER -> TRUE

\* obj.k, as destructuring `{ k }` reads it (undefined when absent).
Get(v, k) ==
    IF v.kind = "object" /\ \E i \in 1..Len(v.val) : v.val[i].key = k
    THEN v.val[CHOOSE i \in 1..Len(v.val) : v.val[i].key = k].value
    ELSE Undefined

\* `${ v }` in a template literal.
TemplateStr(v) ==
    CASE v.kind = "string" -> v.val
      [] v.kind = "number" -> ToString(v.val)
      [] v.kind = "undefined" -> "undefined"
      [] v.kind = "null" -> "null"
      [] v.kind = "boolean" -> IF v.val THEN "true" ELSE "false"
      [] OTHER -> "[object Object]"

\* A JSON text is a sequence of tokens: punctuation, string and number literals.
Punct(t) == [t |-> t, s |-> "", n |-> 0]

StrTok(s) == [t |-> "str", s |-> s, n |-> 0]

NumTok(n) == [t |-> "num", s |-> "", n |-> n]

RECURSIVE JoinTokens(_)
JoinTokens(parts) ==
    IF Len(parts) = 0 THEN <<>>
    ELSE IF Len(parts) = 1 THEN parts[1]
    ELSE parts[1] \o <<Punct(",")>> \o JoinTokens(Tail(parts))

\* The text JSON.stringify writes for a value other than undefined:
\* properties in insertion order, undefined-valued properties left out,
\* undefined array items written as null.
RECURSIVE StringifyTokens(_)
StringifyTokens(v) ==
    CASE v.kind = "string" -> <<StrTok(v.val)>>
      [] v.kind = "number" -> <<NumTok(v.val)>>
      [] v.kind = "null" -> <<Punct("null")>>
      [] v.kind = "boolean" -> <<Punct(IF v.val THEN "true" ELSE "false")>>
      [] v.kind = "array" ->
            <<Punct("[")>>
            \o JoinTokens([i \in 1..Len(v.val) |->
                             IF v.val[i].kind = "undefined" THEN <<Punct("null")>>
                             ELSE StringifyTokens(v.val[i])])
            \o <<Punct("]")>>
      [] v.kind = "object" ->
            LET kept == SelectSeq(v.val, LAMBDA p : p.value.kind # "undefined")
            IN  <<Punct("{")>>
                \o JoinTokens([i \in 1..Len(kept) |->
                                 <<StrTok(kept[i].key), Punct(":")>>
                                 \o StringifyTokens(kept[i].value)])
                \o <<Punct("}")>>

\* The characters of a JSON text.
RECURSIVE Flatten(_)
Flatten(toks) ==
    IF Len(toks) = 0 THEN ""
    ELSE (CASE toks[1].t = "str" -> "\"" \o toks[1].s \o "\""
            [] toks[1].t = "num" -> ToString(toks[1].n)
            [] OTHER -> toks[1].t)
         \o Flatten(Tail(toks))

\* JSON.stringify(v): undefined for undefined, else the text.
JSONstringify(v) ==
    IF v.kind = "undefined" THEN Undefined ELSE Str(Flatten(StringifyTokens(v)))

\* JSON.parse, by recursive descent over the tokens of the text.
ParseFail == [ok |-> FALSE, v |-> Undefined, next |-> 0]

ParseOk(v, next) == [ok |-> TRUE, v |-> v, next |-> next]

Tok(toks, i) == IF i <= Len(toks) THEN toks[i] ELSE Punct("eof")

RECURSIVE ParseValue(_, _), ParseItems(_, _, _), ParseProps(_, _, _)
ParseValue(toks, i) ==
    LET tok == Tok(toks, i)
    IN  CASE tok.t = "str" -> ParseOk(Str(tok.s), i + 1)
          [] tok.t = "num" -> ParseOk(Num(tok.n), i + 1)
          [] tok.t = "null" -> ParseOk(Null, i + 1)
          [] tok.t = "true" -> ParseOk(Bool(TRUE), i + 1)
          [] tok.t = "false" -> ParseOk(Bool(FALSE), i + 1)
          [] tok.t = "[" ->
                IF Tok(toks, i + 1).t = "]" THEN ParseOk(Arr(<<>>), i + 2)
                ELSE ParseItems(toks, i + 1, <<>>)
          [] tok.t = "{" ->
                IF Tok(toks, i + 1).t = "}" THEN ParseOk(Obj(<<>>), i + 2)
                ELSE ParseProps(toks, i + 1, <<>>)
          [] OTHER -> ParseFail

ParseItems(toks, i, acc) ==
    LET e == ParseValue(toks, i)
    IN  IF ~e.ok THEN ParseFail
        ELSE IF Tok(toks, e.next).t = "]" THEN ParseOk(Arr(Append(acc, e.v)), e.next + 1)
        ELSE IF Tok(toks, e.next).t = "," THEN ParseItems(toks, e.next + 1, Append(acc, e.v))
        ELSE ParseFail

ParseProps(toks, i, acc) ==
    IF Tok(toks, i).t # "str" \/ Tok(toks, i + 1).t # ":" THEN ParseFail
    ELSE LET e == ParseValue(toks, i + 2)
         IN  IF ~e.ok THEN ParseFail
             ELSE LET acc2 == Append(acc, Prop(Tok(toks, i).s, e.v))
                  IN  IF Tok(toks, e.next).t = "}" THEN ParseOk(Obj(acc2), e.next + 1)
                      ELSE IF Tok(toks, e.next).t = "," THEN ParseProps(toks, e.next + 1, acc2)
                      ELSE ParseFail

\* JSON.parse(text): ok is FALSE where it throws a SyntaxError.
JSONparse(toks) ==
    LET e == ParseValue(toks, 1)
    IN  IF e.ok /\ e.next = Len(toks) + 1 THEN e ELSE ParseFail

(***************************************************************************)
(* The requests the model sends.                                           *)
(***************************************************************************)
Body(jsonrpc, method, params, id) ==
    [jsonrpc |-> jsonrpc, method |-> method, params |-> params, id |-> id]

ParamsA == Obj(<<Prop("address", Str("A"))>>)

ParamsM == Obj(<<Prop("mint_address", Str("M"))>>)

ParamsAL == Obj(<<Prop("address", Str("A")), Prop("limit", Num(5))>>)

ParamsLA == Obj(<<Prop("limit", Num(5)), Prop("address", Str("A"))>>)

ParamsPS == Obj(<<Prop("prompt", Str("p")), Prop("session_id", Str("s"))>>)

ParamsS == Obj(<<Prop("session_id", Str("s"))>>)

\* Cacheable requests: one whose result also goes to Redis, and one whose
\* result stays in tier 1.
CacheBodies ==
    { Body(Str("2.0"), Str("solana_token_details"), ParamsM, Num(1)),
      Body(Str("2.0"), Str("solana_wallet_tokens"), ParamsAL, Num(1)) }

\* One request written with its parameters in either order.
KeyBodies ==
    { Body(Str("2.0"), Str("solana_wallet_tokens"), ParamsAL, Num(1)),
      Body(Str("2.0"), Str("solana_wallet_tokens"), ParamsLA, Num(2)) }

\* Envelopes that fail the validation, in each of the ways line 107 tests.
InvalidBodies ==
    { Body(Str("1.0"), Str("solana_token_details"), ParamsM, Num(1)),
      Body(Undefined, Str("solana_token_details"), ParamsM, Num(1)),
      Body(Str("2.0"), Undefined, ParamsM, Num(1)),
      Body(Str("2.0"), Str("solana_token_details"), ParamsM, Undefined),
      Body(Str("2.0"), Str("openai_generate"), ParamsPS, Undefined),
      Body(Num(2), Undefined, Undefined, Undefined) }

\* Methods the switch does not know: one that differs from a supported name
\* by a letter, and one whose name carries the marker of a method that is not
\* cached.
UnknownBodies ==
    { Body(Str("2.0"), Str("solana_token_detail"), ParamsM, Num(2)),
      Body(Str("2.0"), Str("context_dump"), ParamsS, Str("x")) }

\* The methods whose results are not cached.
FreshBodies ==
    { Body(Str("2.0"), Str("openai_generate"), ParamsPS, Num(1)),
      Body(Str("2.0"), Str("anthropic_generate"), ParamsPS, Num(1)),
      Body(Str("2.0"), Str("clear_context"), ParamsS, Num(1)) }

\* Requests whose id is present and falsy.
FalsyIdBodies ==
    { Body(Str("2.0"), Str("solana_token_details"), ParamsM, Num(0)),
      Body(Str("2.0"), Str("solana_token_details"), ParamsM, Bool(FALSE)),
      Body(Str("2.0"), Str("solana_token_detail"), ParamsM, Str("")) }

\* Requests whose params are absent, null, empty or of another type.
BadParamBodies ==
    { Body(Str("2.0"), Str("solana_token_details"), Undefined, Num(1)),
      Body(Str("2.0"), Str("solana_token_details"), Obj(<<>>), Num(1)),
      Body(Str("2.0"), Str("openai_generate"), Null, Num(1)),
      Body(Str("2.0"), Str("openai_generate"),
           Obj(<<Prop("prompt", Num(5)), Prop("session_id", Str("s"))>>), Num(1)),
      Body(Str("2.0"), Str("anthropic_generate"),
           Obj(<<Prop("prompt", Str("p"))>>), Num(1)),
      Body(Str("2.0"), Str("clear_context"), Obj(<<>>), Num(1)) }

Bodies ==
    { Body(Str("2.0"), Str("solana_token_details"), ParamsM, Num(1)),
      Body(Str("2.0"), Str("openai_generate"), ParamsPS, Num(1)) }
    \cup InvalidBodies \cup UnknownBodies

\* The methods that are not cached, next to one that is.
FreshAndCachedBodies ==
    { Body(Str("2.0"), Str("solana_token_details"), ParamsM, Num(1)) } \cup FreshBodies

\* Requests with every kind of id.
IdBodies ==
    { Body(Str("2.0"), Str("solana_token_details"), ParamsM, Num(1)),
      Body(Str("2.0"), Str("solana_token_details"), ParamsM, Str("x")),
      Body(Str("2.0"), Str("solana_token_details"), ParamsM, Null) }
    \cup FalsyIdBodies

WRAPPED_SOL_MINT == "So11111111111111111111111111111111111111112"

\* Requests for a price: by mint, by a symbol CoinGecko and Pyth are asked
\* for directly, by a symbol they are not, by the mint of wrapped SOL, by
\* mint and symbol, and by neither.
PriceBodies ==
    { Body(Str("2.0"), Str("solana_token_price"),
           Obj(<<Prop("mint_address", Str("M"))>>), Num(1)),
      Body(Str("2.0"), Str("solana_token_price"),
           Obj(<<Prop("symbol", Str("sol"))>>), Num(1)),
      Body(Str("2.0"), Str("solana_token_price"),
           Obj(<<Prop("symbol", Str("XYZ"))>>), Num(1)),
      Body(Str("2.0"), Str("solana_token_price"),
           Obj(<<Prop("mint_address", Str(WRAPPED_SOL_MINT))>>), Num(1)),
      Body(Str("2.0"), Str("solana_token_price"),
           Obj(<<Prop("mint_address", Str("M")), Prop("symbol", Str("BONK"))>>), Num(1)),
      Body(Str("2.0"), Str("solana_token_price"), Obj(<<>>), Num(1)) }

\* One request for each way through the dispatcher, and the requests whose
\* handlers fail.
ErrBodies ==
    { Body(Str("1.0"), Str("solana_token_details"), ParamsM, Num(1)),
      Body(Str("2.0"), Str("solana_token_detail"), ParamsM, Num(2)),
      Body(Str("2.0"), Str("solana_token_details"), ParamsM, Num(1)),
      Body(Str("2.0"), Str("openai_generate"), ParamsPS, Num(1)) }
    \cup BadParamBodies

\* The calls on one session: a generative call to each provider, each with
\* its own prompt, a call whose prompt is no string, and a clear.
GenBodies ==
    { Body(Str("2.0"), Str("openai_generate"),
           Obj(<<Prop("prompt", Str("p1")), Prop("session_id", Str("s"))>>), Num(1)),
      Body(Str("2.0"), Str("anthropic_generate"),
           Obj(<<Prop("prompt", Str("p2")), Prop("session_id", Str("s"))>>), Num(2)),
      Body(Str("2.0"), Str("openai_generate"),
           Obj(<<Prop("prompt", Num(5)), Prop("session_id", Str("s"))>>), Num(3)),
      Body(Str("2.0"), Str("clear_context"), ParamsS, Num(4)) }

\* Calls on two sessions: a clear of each, a clear without session_id, and a
\* generative call on each.
ClearBodies ==
    { Body(Str("2.0"), Str("clear_context"), ParamsS, Num(1)),
      Body(Str("2.0"), Str("clear_context"),
           Obj(<<Prop("session_id", Str("t"))>>), Num(2)),
      Body(Str("2.0"), Str("clear_context"), Obj(<<>>), Num(3)),
      Body(Str("2.0"), Str("openai_generate"),
           Obj(<<Prop("prompt", Str("p1")), Prop("session_id", Str("s"))>>), Num(4)),
      Body(Str("2.0"), Str("anthropic_generate"),
           Obj(<<Prop("prompt", Str("p2")), Prop("session_id", Str("t"))>>), Num(5)) }

\* The generative calls of SimpleMCPAgent.generateWithLLM
\* (test-mcp-flow.js): to OpenAI with a messages list and no prompt, to
\* Anthropic with a prompt.
AgentBodies ==
    { Body(Str("2.0"), Str("openai_generate"),
           Obj(<<Prop("model", Str("gpt-4o")),
                 Prop("messages",
                      Arr(<<Obj(<<Prop("role", Str("system")), Prop("content", Str("sys"))>>),
                            Obj(<<Prop("role", Str("user")), Prop("content", Str("p1"))>>)>>)),
                 Prop("max_tokens", Num(2000)),
                 Prop("session_id", Str("s"))>>), Num(1)),
      Body(Str("2.0"), Str("anthropic_generate"),
           Obj(<<Prop("prompt", Str("Human: p1 Assistant: ")),
                 Prop("model", Str("claude-3-5-sonnet-20240620")),
                 Prop("max_tokens", Num(2000)),
                 Prop("session_id", Str("s"))>>), Num(2)) }

ParamsP == Obj(<<Prop("program_id", Str("P"))>>)

\* The two handlers that await several Vybe calls under one Promise.all.
MultiBodies ==
    { Body(Str("2.0"), Str("solana_wallet_overview"), ParamsA, Num(1)),
      Body(Str("2.0"), Str("solana_program_metrics"), ParamsP, Num(2)) }

\* The two methods that take no parameter and read rankings and summaries.
SummaryBodies ==
    { Body(Str("2.0"), Str("solana_market_sentiment"), Obj(<<>>), Num(1)),
      Body(Str("2.0"), Str("solana_network_activity"), Obj(<<>>), Num(2)) }

\* params.addresses of a list of strings.
AddressList(addresses) == Arr([i \in 1..Len(addresses) |-> Str(addresses[i])])

\* Cross analyses: without params, without addresses, with addresses that are
\* no array or an empty one, with an address that is empty, and of one and
\* of two wallets.
CrossBodies ==
    { Body(Str("2.0"), Str("solana_cross_analysis"), Undefined, Num(1)),
      Body(Str("2.0"), Str("solana_cross_analysis"), Obj(<<>>), Num(2)),
      Body(Str("2.0"), Str("solana_cross_analysis"),
           Obj(<<Prop("addresses", Str("A"))>>), Num(3)),
      Body(Str("2.0"), Str("solana_cross_analysis"),
           Obj(<<Prop("addresses", Arr(<<>>))>>), Num(4)),
      Body(Str("2.0"), Str("solana_cross_analysis"),
           Obj(<<Prop("addresses", AddressList(<<"A", "">>))>>), Num(5)),
      Body(Str("2.0"), Str("solana_cross_analysis"),
           Obj(<<Prop("addresses", AddressList(<<"A">>))>>), Num(6)),
      Body(Str("2.0"), Str("solana_cross_analysis"),
           Obj(<<Prop("addresses", AddressList(<<"A", "B">>))>>), Num(7)) }

\* Requests sent with and without the key: to a cached method, to a
\* generative method, a clear, and an envelope that is not valid.
AuthBodies ==
    { Body(Str("2.0"), Str("solana_token_details"), ParamsM, Num(1)),
      Body(Str("2.0"), Str("openai_generate"), ParamsPS, Num(2)),
      Body(Str("2.0"), Str("clear_context"), ParamsS, Num(3)),
      Body(Str("1.0"), Str("solana_token_details"), ParamsM, Num(4)) }

\* MCP_SERVER_API_KEY of the environment.
ServerApiKey == Str("k")

\* x-api-key: absent, empty, another key, the server's key.
ApiKeys == {Undefined, Str(""), Str("wrong"), ServerApiKey}

\* Every request of the model.
AllBodies ==
    CacheBodies \cup KeyBodies \cup InvalidBodies \cup UnknownBodies \cup FreshBodies
    \cup FalsyIdBodies \cup BadParamBodies \cup Bodies \cup FreshAndCachedBodies
    \cup IdBodies \cup ErrBodies \cup GenBodies \cup ClearBodies \cup AgentBodies
    \cup AuthBodies \cup MultiBodies \cup SummaryBodies \cup CrossBodies
    \cup PriceBodies

(***************************************************************************)
(* Method names and the name tests of the dispatcher.                      *)
(***************************************************************************)
\* The cases of switch(method).
SupportedMethods ==
    { "openai_generate", "anthropic_generate", "clear_context",
      "solana_wallet_overview", "solana_wallet_tokens", "solana_wallet_nfts",
      "solana_wallet_pnl", "solana_token_details", "solana_token_price",
      "solana_token_ohlc", "solana_token_holders", "solana_program_details",
      "solana_program_metrics", "solana_program_users", "solana_token_transfers",
      "solana_trades", "solana_whale_movements", "solana_market_sentiment",
      "solana_network_activity", "solana_cross_analysis" }

\* The pieces a method name of the model has before or after a marker.
Fragments ==
    { "", "openai", "anthropic", "clear_", "solana_wallet", "solana_token",
      "solana_program", "_dump" }

\* The substrings the dispatcher looks for in a method name.
Markers == {"_generate", "context", "_overview", "_details", "_holders"}

\* The names of the model that contain a marker.
Containing == [sub \in Markers |-> {pre \o sub \o post : pre \in Fragments, post \in Fragments}]

\* String.prototype.includes on the names of the model.
Includes(s, sub) == s \in Containing[sub]

\* A dispatcher that caches the generative methods.
IsCacheableContextOnly(method) == ~Includes(method, "context")

\* Lines 119 and 226: the method is looked up in, and written to, the caches.
IsCacheableGenerateOnly(method) == ~Includes(method, "_generate")

IsCacheable(method) ==
    ~Includes(method, "_generate") /\ ~Includes(method, "context")

\* Line 230: the method's result also goes to Redis.
Tier2EligibleAll(method) == TRUE

Tier2Eligible(method) ==
    \/ Includes(method, "_overview")
    \/ Includes(method, "_details")
    \/ Includes(method, "_holders")

\* Lines 120 and 227.
CacheKeyText(method, params) ==
    method \o ":" \o TemplateStr(JSONstringify(params))

\* The keys of the model's requests, computed once.
CacheKeys ==
    [mp \in {<<b.method.val, b.params>> : b \in {x \in AllBodies : x.method.kind = "string"}} |->
        CacheKeyText(mp[1], mp[2])]

\* One key for every request.
CacheKeyForAll(method, params) == "mcp"

CacheKey(method, params) ==
    IF <<method, params>> \in DOMAIN CacheKeys THEN CacheKeys[<<method, params>>]
    ELSE CacheKeyText(method, params)

\* NodeCache stdTTL and checkperiod, Redis EX, in seconds.
StdTTL == 120

Checkperiod == 60

RedisEX == 300

(***************************************************************************)
(* Requests, responses and errors.                                         *)
(***************************************************************************)
NilReply == [kind |-> "nil", text |-> <<>>, orig |-> Undefined]

TextReply(text, orig) == [kind |-> "text", text |-> text, orig |-> orig]

ErrorReply == [kind |-> "error", text |-> <<>>, orig |-> Undefined]

NoAnswer == [result |-> Undefined, src |-> ""]

NoBody == [jsonrpc |-> Undefined, method |-> Undefined, params |-> Undefined, id |-> Undefined]

\* The locals of one run of app.post('/mcp') and of the handler it awaits.
\* The fields from trace on are history: what the request did (trace, the
\* number of Vybe and provider calls), the tier-1 entry its response stands on
\* (basis), what it read from Redis (reply), and what the tier-1 entry under
\* its key had last answered when it arrived (prev), what the entries for the
\* same method and the same parameters in any order had (equal), the
\* response it got (resp), what the provider answered to each attempt (outs),
\* the seconds that have passed since its handler returned (age),
\* the failure the dispatcher caught (thrown) and the turns its session held
\* when it arrived (prior).
NoResp == [kind |-> "none", code |-> 0, message |-> "", result |-> Undefined, id |-> Undefined]

\* The locals of handleSolanaTokenPrice (lines 607-632), the call it awaits
\* and, as history, the calls it has made, each with what it returned.
PriceLocals(mint_address, symbol) ==
    [mint_address |-> mint_address, symbol |-> symbol,
     tokenPrice |-> Undefined, determinedSymbol |-> symbol, anErrorOccurred |-> Null,
     feedIdToUse |-> Undefined, awaiting |-> "", calls |-> <<>>]

NoPrice == PriceLocals(Undefined, Undefined)

Idle ==
    [ pc |-> "idle", body |-> NoBody, slot |-> "",
      stage |-> 0, got |-> <<>>,                      \* Promise.all of the handler
      result |-> Undefined,                           \* let result
      messages |-> <<>>, attempts |-> 0, waits |-> <<>>, outs |-> <<>>,
      trace |-> <<>>, upstream |-> 0, provider |-> 0, basis |-> "", reply |-> NilReply,
      prev |-> NoAnswer, equal |-> {}, resp |-> NoResp,
      thrown |-> [code |-> Undefined, message |-> ""],
      prior |-> <<>>,
      apiKey |-> Undefined,                           \* req.headers['x-api-key']
      age |-> 0,
      price |-> NoPrice ]                             \* handleSolanaTokenPrice


ErrorResp(code, message, id) ==
    [kind |-> "error", code |-> code, message |-> message, result |-> Undefined, id |-> id]

ResultResp(result, id) ==
    [kind |-> "result", code |-> 0, message |-> "", result |-> result, id |-> id]

\* A body without the protocol version.
WireNoVersion(resp) ==
    IF resp.kind = "error"
    THEN Obj(<<Prop("error", Obj(<<Prop("code", Num(resp.code)),
                                   Prop("message", Str(resp.message))>>)),
               Prop("id", resp.id)>>)
    ELSE Obj(<<Prop("result", resp.result), Prop("id", resp.id)>>)

\* The body res.json is given (lines 108-115, 246-250 and 262-269), and what
\* the caller reads: res.json sends JSON.stringify of the body.
Wire(resp) ==
    IF resp.kind = "error"
    THEN Obj(<<Prop("jsonrpc", Str("2.0")),
               Prop("error", Obj(<<Prop("code", Num(resp.code)),
                                   Prop("message", Str(resp.message))>>)),
               Prop("id", resp.id)>>)
    ELSE Obj(<<Prop("jsonrpc", Str("2.0")), Prop("result", resp.result), Prop("id", resp.id)>>)

WireRead(resp) == JSONparse(StringifyTokens(Wire(resp))).v

\* new Error(message) with error.code set (undefined when the code never sets it).
Error(code, message) == [code |-> code, message |-> message]

\* A catch that answers every failure with the generic code.
CatchAlwaysInternal(err, id) ==
    ErrorResp(-32603, IF err.message # "" THEN err.message ELSE "Internal server error", id)

\* Lines 253-270: the dispatcher's catch.
Catch(err, id) ==
    ErrorResp(IF Truthy(err.code) THEN err.code.val ELSE -32603,
              IF err.message # "" THEN err.message ELSE "Internal server error",
              id)

\* What one segment of a request leaves behind: the request's locals, tier 1,
\* the session store, and the response if one was sent.
Effect(r, mc, ctx, resp) == [r |-> r, mc |-> mc, ctx |-> ctx, resp |-> resp]

Log(r, events) == [r EXCEPT !.trace = @ \o events]

Without(f, k) == [x \in DOMAIN f \ {k} |-> f[x]]

With(f, k, v) == [x \in DOMAIN f \cup {k} |-> IF x = k THEN v ELSE f[x]]

Empty == [x \in {} |-> Undefined]

(***************************************************************************)
(* Tier 1: NodeCache({ stdTTL: 120, checkperiod: 60, useClones: false }).  *)
(* An entry lives while its remaining life is not negative (t < now        *)
(* expires it); get deletes an expired entry it finds.                     *)
(***************************************************************************)
T1Live(mc, key) == key \in DOMAIN mc /\ mc[key].life >= 0

\* A tier 1 that holds its entries for no time at all.
T1GetNever(mc, key) == Undefined

\* memoryCache.get(key)
T1Get(mc, key) == IF T1Live(mc, key) THEN mc[key].v ELSE Undefined

T1AfterGet(mc, key) == IF key \in DOMAIN mc /\ ~T1Live(mc, key) THEN Without(mc, key) ELSE mc

\* memoryCache.set(key, v): the value itself is kept (useClones: false).  owner,
\* src, answered, method and params are history: who wrote the entry, from
\* which source, and the result a caller has got from it; age is the seconds
\* since a handler returned the value, and late the seconds of them that had
\* passed when Redis stored it.
T1Set(mc, key, v, r, src) ==
    LET held == src = "tier2" /\ key \in DOMAIN redisStore
    IN  With(mc, key, [v |-> v, life |-> StdTTL, owner |-> r.slot, src |-> src,
                       answered |-> Undefined,
                       method |-> r.body.method, params |-> r.body.params,
                       age |-> IF held THEN redisStore[key].age ELSE 0,
                       late |-> IF held THEN redisStore[key].late ELSE 0])

(***************************************************************************)
(* The handlers.                                                           *)
(***************************************************************************)
\* A result with a property that is undefined, which JSON.stringify drops.
TextResultWithUndefined(text) ==
    Obj(<<Prop("content", Arr(<<Obj(<<Prop("type", Str("text")), Prop("text", Str(text))>>)>>)),
          Prop("isError", Undefined)>>)

\* What every handler returns: { content: [ { type: 'text', text } ] }.
TextResult(text) ==
    Obj(<<Prop("content", Arr(<<Obj(<<Prop("type", Str("text")), Prop("text", Str(text))>>)>>))>>)

Handler(required, missing, destructures, stages, prefix, title) ==
    [required |-> required, missing |-> missing, destructures |-> destructures,
     stages |-> stages, prefix |-> prefix, title |-> title]

\* The analytics handlers: the parameter each requires, and the Vybe calls each
\* awaits (a stage is one await; the calls of a stage run under Promise.all).
\* handleSolanaTokenPrice has a control flow of its own and is not in the
\* table; no request of the model names it.  handleSolanaCrossAnalysis makes
\* one call for each address: its calls are in Stages.
HandlerTable ==
    ("solana_wallet_overview" :> Handler("address", "Wallet address is required", TRUE,
        << <<"getWalletTokens", "getWalletNfts">> >>,
        "Error fetching Solana data: ", "Wallet Overview for "))
    @@ ("solana_wallet_tokens" :> Handler("address", "Wallet address is required", TRUE,
        << <<"getWalletTokens">> >>, "Error fetching Solana tokens: ", "Tokens in wallet "))
    @@ ("solana_wallet_nfts" :> Handler("address", "Wallet address is required", TRUE,
        << <<"getWalletNfts">> >>, "Error fetching Solana NFTs: ", "NFTs in wallet "))
    @@ ("solana_wallet_pnl" :> Handler("address", "Wallet address is required", TRUE,
        << <<"getWalletPnl">> >>, "Error fetching performance data: ", "PnL Analysis for "))
    @@ ("solana_token_details" :> Handler("mint_address", "Token mint address is required", TRUE,
        << <<"getTokenDetails">> >>, "Error fetching token details: ", "Token Details for "))
    @@ ("solana_token_ohlc" :> Handler("mint_address", "Token mint address is required", TRUE,
        << <<"getTokenOhlc">> >>, "Error fetching historical data: ", "OHLC data for token "))
    @@ ("solana_token_holders" :> Handler("mint_address", "Token mint address is required", TRUE,
        << <<"getTopTokenHolders">> >>, "Error fetching holder data: ", "Top token holders "))
    @@ ("solana_program_details" :> Handler("program_id", "Program ID is required", TRUE,
        << <<"getProgramDetails">> >>, "Error fetching program details: ", "Program Details for "))
    @@ ("solana_program_metrics" :> Handler("program_id", "Program ID is required", TRUE,
        << <<"getProgramInstructionsCountTimeSeries", "getProgramTransactionsCountTimeSeries",
             "getProgramActiveUsersTimeSeries">> >>,
        "Error fetching program metrics: ", "Program Metrics for "))
    @@ ("solana_program_users" :> Handler("program_id", "Program ID is required", TRUE,
        << <<"getProgramActiveUsers">> >>, "Error fetching user data: ", "Top active users for program "))
    @@ ("solana_token_transfers" :> Handler("mint_address", "Token mint address is required", TRUE,
        << <<"getTokenTransfers">> >>, "Error fetching transfer data: ", "Recent token transfers "))
    @@ ("solana_trades" :> Handler("mint_address", "Token mint address is required", TRUE,
        << <<"getTokenTrades">> >>, "Error fetching trade data: ", "Recent token trades "))
    @@ ("solana_whale_movements" :> Handler("", "", TRUE,
        << <<"getTokenTransfers">> >>, "Error fetching whale movements: ", "Whale movements "))
    @@ ("solana_market_sentiment" :> Handler("", "", FALSE,
        << <<"getProgramRanking">>, <<"getTokensSummary">> >>,
        "Error fetching market sentiment: ", "Solana Market Sentiment "))
    @@ ("solana_network_activity" :> Handler("", "", FALSE,
        << <<"getProgramRanking">> >>, "Error fetching network activity: ",
        "Solana Network Activity "))
    @@ ("solana_cross_analysis" :> Handler("addresses", "An array of addresses is required", TRUE,
        <<>>, "Error in cross analysis: ", "Cross-analysis of "))

\* The awaits of a handler and the Vybe calls of each: for the cross
\* analysis, addresses.map(getWalletTokens) under one Promise.all.
Stages(body) ==
    IF body.method.val = "solana_cross_analysis"
    THEN << [i \in 1..Len(Get(body.params, "addresses").val) |-> "getWalletTokens"] >>
    ELSE HandlerTable[body.method.val].stages

\* The test of a handler's required parameter: `!v`, and for the cross
\* analysis line 1164.
Missing(method, v) ==
    IF method = "solana_cross_analysis"
    THEN ~Truthy(v) \/ v.kind # "array" \/ Len(v.val) = 0
    ELSE ~Truthy(v)

\* What a Vybe call resolves to: one of two payloads, so that two runs of a
\* handler can differ.
Payloads == {"d1", "d2"}

RECURSIVE Concat(_)
Concat(parts) == IF Len(parts) = 0 THEN "" ELSE parts[1] \o " " \o Concat(Tail(parts))

\* A Vybe response that has no data member, or an empty one.
NoData == "nodata"

(***************************************************************************)
(* handleSolanaCrossAnalysis: the merge of the wallets' token lists.       *)
(***************************************************************************)
\* A token of a wallet-tokens response.  symbol "" stands for a symbol that
\* is missing; valueUsd NoValue for a value that is missing.
NoValue == -1

Token(mintAddress, symbol, amount, valueUsd) ==
    [mintAddress |-> mintAddress, symbol |-> symbol, amount |-> amount, valueUsd |-> valueUsd]

\* A wallet-tokens response: `data` is read when hasData (result?.data).
WalletResult(hasData, data) == [hasData |-> hasData, data |-> data]

\* Lines 1186-1189: holders[address] = { amount, usdValue: valueUsd || 0 }.
Holding(address, token) ==
    [address |-> address, amount |-> token.amount,
     usdValue |-> IF token.valueUsd = NoValue THEN 0 ELSE token.valueUsd]

\* Lines 1180-1189: one token of one wallet goes into tokensByMint.  Entries
\* and holders keep the order in which their keys were first set.
AddToken(tokensByMint, address, token) ==
    LET known == {i \in 1..Len(tokensByMint) : tokensByMint[i].mint = token.mintAddress}
        entry == IF known # {} THEN tokensByMint[CHOOSE i \in known : TRUE]
                 ELSE [mint |-> token.mintAddress,
                       symbol |-> IF token.symbol # "" THEN token.symbol ELSE "Unknown",
                       holders |-> <<>>]
        held == {j \in 1..Len(entry.holders) : entry.holders[j].address = address}
        holders == IF held # {}
                   THEN [entry.holders EXCEPT ![CHOOSE j \in held : TRUE] = Holding(address, token)]
                   ELSE Append(entry.holders, Holding(address, token))
        updated == [entry EXCEPT !.holders = holders]
    IN  IF known # {} THEN [tokensByMint EXCEPT ![CHOOSE i \in known : TRUE] = updated]
        ELSE Append(tokensByMint, updated)

RECURSIVE AddTokens(_, _, _)
\* result.data.forEach of lines 1179-1190.
AddTokens(tokensByMint, address, data) ==
    IF data = <<>> THEN tokensByMint
    ELSE AddTokens(AddToken(tokensByMint, address, Head(data)), address, Tail(data))

RECURSIVE TokensByMintFrom(_, _, _, _)
\* tokenResults.forEach of lines 1176-1192, from wallet `index` on.
TokensByMintFrom(tokensByMint, addresses, tokenResults, index) ==
    IF index > Len(tokenResults) THEN tokensByMint
    ELSE TokensByMintFrom(
             IF tokenResults[index].hasData
             THEN AddTokens(tokensByMint, addresses[index], tokenResults[index].data)
             ELSE tokensByMint,
             addresses, tokenResults, index + 1)

TokensByMint(addresses, tokenResults) == TokensByMintFrom(<<>>, addresses, tokenResults, 1)

RECURSIVE ByHoldersDesc(_, _)
\* Array.prototype.sort of line 1195 (stable), by the number of holders
\* descending: the entries with count holders, then those with fewer.
ByHoldersDesc(entries, count) ==
    IF count = 0 THEN <<>>
    ELSE SelectSeq(entries, LAMBDA e : Len(e.holders) = count) \o ByHoldersDesc(entries, count - 1)

\* A merge that keeps the tokens in the order of their first appearance.
CommonTokensUnsorted(addresses, tokenResults) ==
    SelectSeq(TokensByMint(addresses, tokenResults), LAMBDA e : Len(e.holders) > 1)

\* Lines 1193-1195: commonTokens.
CommonTokens(addresses, tokenResults) ==
    ByHoldersDesc(SelectSeq(TokensByMint(addresses, tokenResults),
                            LAMBDA e : Len(e.holders) > 1),
                  Len(addresses))

\* Line 1198: commonTokens.slice(0, 10).
Listed(commonTokens) ==
    IF Len(commonTokens) > 10 THEN SubSeq(commonTokens, 1, 10) ELSE commonTokens

\* Lines 1172-1175: addressNames[address], the last index of the address.
AddressName(addresses, address) ==
    "Wallet " \o ToString(CHOOSE i \in 1..Len(addresses) :
                              /\ addresses[i] = address
                              /\ \A j \in (i + 1)..Len(addresses) : addresses[j] # address)

RECURSIVE HolderLines(_, _)
\* Lines 1202-1205.
HolderLines(addresses, holders) ==
    IF holders = <<>> THEN ""
    ELSE "\n   - " \o AddressName(addresses, Head(holders).address) \o ": "
         \o ToString(Head(holders).amount) \o " ($" \o ToString(Head(holders).usdValue) \o ")"
         \o HolderLines(addresses, Tail(holders))

RECURSIVE TokenLines(_, _, _)
\* Lines 1198-1206, from entry `index` on.
TokenLines(addresses, listed, index) ==
    IF index > Len(listed) THEN ""
    ELSE "\n" \o ToString(index) \o ". " \o listed[index].symbol \o " ("
         \o ToString(Len(listed[index].holders)) \o "/" \o ToString(Len(addresses))
         \o " wallets):" \o HolderLines(addresses, listed[index].holders)
         \o TokenLines(addresses, listed, index + 1)

\* Lines 1196-1216: the text of the result.
CrossText(addresses, tokenResults) ==
    LET commonTokens == CommonTokens(addresses, tokenResults)
    IN  "Cross-analysis of " \o ToString(Len(addresses)) \o " addresses:\n        \nCommon tokens:"
        \o (IF Len(commonTokens) > 0 THEN TokenLines(addresses, Listed(commonTokens), 1)
            ELSE "\nNo common tokens found between addresses")

\* params.addresses as the list of its strings.
AddressesOf(params) ==
    LET addresses == Get(params, "addresses")
    IN  [i \in 1..Len(addresses.val) |-> addresses.val[i].val]

\* The wallet-tokens response a payload of the model stands for.
WalletData(payload) ==
    IF payload = "d1"
    THEN WalletResult(TRUE, <<Token("mintX", "X", 10, 20), Token("mintY", "", 5, NoValue)>>)
    ELSE IF payload = "d2"
    THEN WalletResult(TRUE, <<Token("mintX", "X", 3, 6)>>)
    ELSE WalletResult(FALSE, <<>>)

\* Lines 1091-1098 and 1099-1109: the two sections of the market sentiment.
ProgramsData(programsResult) ==
    IF programsResult # NoData
    THEN "\n1. " \o programsResult \o ": active users"
    ELSE "\nNo program data available"

TokensData(tokensResult) ==
    IF tokensResult # NoData
    THEN "\n1. " \o tokensResult \o ": price"
    ELSE "\nNo token data available"

\* Lines 1110-1119.
SentimentText(programsResult, tokensResult) ==
    "Solana Market Sentiment:\n\nTOP PROGRAMS BY ACTIVITY:" \o ProgramsData(programsResult)
    \o "\n\nTOP TOKENS BY PRICE:" \o TokensData(tokensResult)

\* Lines 1133-1143: the totals over programsResult.data, 0 each without data.
ActivityTotals(programsResult) ==
    IF programsResult # NoData
    THEN "Instructions: sum(" \o programsResult \o ")\nTransactions: sum(" \o programsResult
         \o ")\nActive Users: sum(" \o programsResult \o ")"
    ELSE "Instructions: 0\nTransactions: 0\nActive Users: 0"

\* Lines 1144-1154.
NetworkText(programsResult) ==
    "Solana Network Activity (last 24h):\n\n" \o ActivityTotals(programsResult)
    \o "\n\nNote: This data represents activity from the "
    \o (IF programsResult # NoData THEN "len(" \o programsResult \o ")" ELSE "0")
    \o " most active programs."

\* The text a handler composes from its parameter and the payloads it got.
ComposeText(method, params, got) ==
    LET h == HandlerTable[method]
    IN  IF method = "solana_market_sentiment" THEN SentimentText(got[1], got[2])
        ELSE IF method = "solana_network_activity" THEN NetworkText(got[1])
        ELSE IF method = "solana_cross_analysis"
        THEN CrossText(AddressesOf(params), [i \in 1..Len(got) |-> WalletData(got[i])])
        ELSE h.title
             \o (IF h.required = "" THEN "" ELSE TemplateStr(Get(params, h.required)))
             \o ": " \o Concat(got)

\* Destructuring the parameter object throws a TypeError on undefined and null.
DestructureFails(params) == params.kind \in {"undefined", "null"}

\* What evaluating `redisClient && redisClient.isReady` leaves in the trace.
ReadyEvents(isReady) ==
    IF redisClient THEN <<IF isReady THEN "isReady:true" ELSE "isReady:false">> ELSE <<>>

\* A population that leaves a live entry of tier 1 as it is.
CompleteKeepsFirst(r, result, mc, ctx, isReady) ==
    LET method == r.body.method.val
        key == CacheKey(method, r.body.params)
        r1 == [r EXCEPT !.result = result]
    IN  IF IsCacheable(method)
        THEN LET mc1 == IF T1Live(mc, key) THEN mc ELSE T1Set(mc, key, result, r, "handler")
                 r2 == [Log(r1, <<"t1.set">> \o ReadyEvents(isReady)) EXCEPT !.basis = r.slot]
             IN  IF redisClient /\ isReady /\ Tier2Eligible(method)
                 THEN Effect([Log(r2, <<"t2.set">>) EXCEPT !.pc = "redis_set"], mc1, ctx, NoResp)
                 ELSE Effect(r2, mc1, ctx, ResultResp(result, r.body.id))
        ELSE Effect(r1, mc, ctx, ResultResp(result, r.body.id))

\* Lines 226-251: the handler has returned `result`.  `isReady` is what
\* redisClient.isReady reads at line 229.
Complete(r, result, mc, ctx, isReady) ==
    LET method == r.body.method.val
        key == CacheKey(method, r.body.params)
        r1 == [r EXCEPT !.result = result]
    IN  IF IsCacheable(method)
        THEN LET mc1 == T1Set(mc, key, result, r, "handler")
                 r2 == [Log(r1, <<"t1.set">> \o ReadyEvents(isReady)) EXCEPT !.basis = r.slot]
             IN  IF redisClient /\ isReady /\ Tier2Eligible(method)
                 THEN Effect([Log(r2, <<"t2.set">>) EXCEPT !.pc = "redis_set"], mc1, ctx, NoResp)
                 ELSE Effect(r2, mc1, ctx, ResultResp(result, r.body.id))
        ELSE Effect(r1, mc, ctx, ResultResp(result, r.body.id))

\* A catch that keeps the failure in tier 1, under the key of the request.
ThrowAndCache(r, err, mc, ctx) ==
    Effect([r EXCEPT !.thrown = err],
           IF r.body.method.kind = "string" /\ IsCacheable(r.body.method.val)
           THEN T1Set(mc, CacheKey(r.body.method.val, r.body.params),
                      TextResult(err.message), r, "handler")
           ELSE mc,
           ctx, Catch(err, r.body.id))

\* A failure reaches the dispatcher's catch.
Throw(r, err, mc, ctx) == Effect([r EXCEPT !.thrown = err], mc, ctx, Catch(err, r.body.id))

\* The calls of stage n are issued.
Issue(r, n) ==
    LET calls == Stages(r.body)[n]
    IN  [Log(r, [i \in 1..Len(calls) |-> "vybe." \o calls[i]])
            EXCEPT !.pc = "upstream", !.stage = n,
                   !.got = (IF n = 1 THEN <<>> ELSE r.got)
                           \o [i \in 1..Len(calls) |-> "pending"],
                   !.upstream = @ + Len(calls)]

\* An analytics handler up to its first await.
Analytics(r, mc, ctx) ==
    LET h == HandlerTable[r.body.method.val]
        params == r.body.params
    IN  IF h.destructures /\ DestructureFails(params)
        THEN Throw(r, Error(Undefined, "Cannot destructure property of 'undefined'"), mc, ctx)
        ELSE IF h.required # "" /\ Missing(r.body.method.val, Get(params, h.required))
        THEN Throw(r, Error(Num(-32602), h.missing), mc, ctx)
        ELSE IF r.body.method.val = "solana_cross_analysis"
                /\ \E i \in 1..Len(Get(params, "addresses").val) :
                      ~Truthy(Get(params, "addresses").val[i])
        THEN \* getWalletTokens throws on an address that is falsy, inside map:
             \* the calls before it are under way, the rest are never made.
             LET addresses == Get(params, "addresses").val
                 k == CHOOSE i \in 1..Len(addresses) :
                          /\ ~Truthy(addresses[i])
                          /\ \A j \in 1..(i - 1) : Truthy(addresses[j])
             IN  Throw([Log(r, [i \in 1..k |-> "vybe.getWalletTokens"] \o <<"vybe:fail">>)
                           EXCEPT !.upstream = @ + k - 1],
                       Error(Num(-32000), h.prefix \o "ownerAddress parameter is required."),
                       mc, ctx)
        ELSE Effect(Issue(r, 1), mc, ctx, NoResp)

\* A clear that empties the store (contextStore.clear()).
ClearContextAll(r, mc, ctx, isReady) ==
    LET params == r.body.params
        session_id == Get(params, "session_id")
    IN  IF DestructureFails(params)
        THEN Throw(r, Error(Undefined, "Cannot destructure property of 'undefined'"), mc, ctx)
        ELSE IF ~Truthy(session_id)
        THEN Throw(r, Error(Num(-32602), "session_id is required"), mc, ctx)
        ELSE Complete(Log(r, <<"ctx.delete">>),
                      TextResult("Context cleared successfully"),
                      mc, Empty, isReady)

\* Lines 415-425.
ClearContext(r, mc, ctx, isReady) ==
    LET params == r.body.params
        session_id == Get(params, "session_id")
    IN  IF DestructureFails(params)
        THEN Throw(r, Error(Undefined, "Cannot destructure property of 'undefined'"), mc, ctx)
        ELSE IF ~Truthy(session_id)
        THEN Throw(r, Error(Num(-32602), "session_id is required"), mc, ctx)
        ELSE Complete(Log(r, <<"ctx.delete">>),
                      TextResult("Context cleared successfully"),
                      mc, Without(ctx, session_id), isReady)

Turn(role, content) == [role |-> role, content |-> content]

\* One prefix for both providers.
ProviderPrefixOpenAI(method) == "OpenAI error: "

\* Lines 336 and 409: the text put before the provider's message.
ProviderPrefix(method) ==
    IF method = "openai_generate" THEN "OpenAI error: " ELSE "Anthropic error: "

\* A handler that stores the user turn before it calls the provider.
GenerateStoresPrompt(r, mc, ctx) ==
    LET params == r.body.params
        prompt == Get(params, "prompt")
        session_id == Get(params, "session_id")
    IN  IF DestructureFails(params)
        THEN Throw(r, Error(Undefined, "Cannot destructure property of 'undefined'"), mc, ctx)
        ELSE IF ~Truthy(prompt) \/ prompt.kind # "string"
        THEN Throw(r, Error(Num(-32602), "Prompt is required and must be a string"), mc, ctx)
        ELSE IF ~Truthy(session_id)
        THEN Throw(r, Error(Num(-32602), "session_id is required"), mc, ctx)
        ELSE LET previousMessages == IF session_id \in DOMAIN ctx THEN ctx[session_id] ELSE <<>>
                 messages == Append(previousMessages, Turn("user", prompt.val))
             IN  Effect([Log(r, <<"ctx.get", "provider">>)
                            EXCEPT !.pc = "provider", !.messages = messages,
                                   !.attempts = 0, !.provider = 1],
                        mc, With(ctx, session_id, messages), NoResp)

\* Lines 273-302 and 342-376: a generative handler up to its first provider call.
Generate(r, mc, ctx) ==
    LET params == r.body.params
        prompt == Get(params, "prompt")
        session_id == Get(params, "session_id")
    IN  IF DestructureFails(params)
        THEN Throw(r, Error(Undefined, "Cannot destructure property of 'undefined'"), mc, ctx)
        ELSE IF ~Truthy(prompt) \/ prompt.kind # "string"
        THEN Throw(r, Error(Num(-32602), "Prompt is required and must be a string"), mc, ctx)
        ELSE IF ~Truthy(session_id)
        THEN Throw(r, Error(Num(-32602), "session_id is required"), mc, ctx)
        ELSE LET previousMessages == IF session_id \in DOMAIN ctx THEN ctx[session_id] ELSE <<>>
                 messages == Append(previousMessages, Turn("user", prompt.val))
             IN  Effect([Log(r, <<"ctx.get", "provider">>)
                            EXCEPT !.pc = "provider", !.messages = messages,
                                   !.attempts = 0, !.provider = 1],
                        mc, ctx, NoResp)

\* The switch with a default case that answers as line 108 does, with id null.
InvokeNullId(r, mc, ctx, isReady) ==
    LET method == r.body.method.val
        r1 == Log(r, <<"handler">>)
    IN  CASE method \notin SupportedMethods ->
                Effect(r, mc, ctx,
                       ErrorResp(-32601, "Method '" \o method \o "' not found", Null))
          [] method = "clear_context" -> ClearContext(r1, mc, ctx, isReady)
          [] method \in {"openai_generate", "anthropic_generate"} -> Generate(r1, mc, ctx)
          [] OTHER -> Analytics(r1, mc, ctx)

(***************************************************************************)
(* handleSolanaTokenPrice, lines 607-799.                                  *)
(***************************************************************************)
SOL_PYTH_FEED_ID_MAINNET == "H6ARHf6YXhGYeQfUzQNGk6rDNnLBQKrenN712K4AQJEG"

USDC_PYTH_FEED_ID_MAINNET == "Gnt27xtC473ZT2Mw5u8wZ68Z3gULkSTb5DuxJy7eJotD"

COINGECKO_ID_MAP ==
    ("SOL" :> "solana") @@ ("USDC" :> "usd-coin") @@ ("USDT" :> "tether")
    @@ ("BONK" :> "bonk") @@ ("JUP" :> "jupiter-aggregator")
    @@ ("PYTH" :> "pyth-network") @@ ("WIF" :> "dogwifhat")

\* String.prototype.toUpperCase on the symbols of the model.
ToUpperCase(str) ==
    CASE str = "sol" -> "SOL"
      [] str = "jup" -> "JUP"
      [] str = "bonk" -> "BONK"
      [] OTHER -> str

\* Number.prototype.toFixed(6) on the prices of the model.
ToFixed6(n) == <<"1", "2", "3", "4">>[n] \o ".000000"

\* a || b
OrElse(a, b) == IF Truthy(a) THEN a ELSE b

\* What a provider call returns: data with or without a price (and a symbol,
\* or a price feed), a response that is not ok, or a failure.
PriceData(price, symbol) ==
    [kind |-> "data", price |-> price, symbol |-> symbol, feed |-> Undefined, message |-> ""]

FeedData(feed) ==
    [kind |-> "data", price |-> Undefined, symbol |-> Undefined, feed |-> feed, message |-> ""]

NotOk ==
    [kind |-> "status", price |-> Undefined, symbol |-> Undefined, feed |-> Undefined,
     message |-> ""]

Threw(message) ==
    [kind |-> "throw", price |-> Undefined, symbol |-> Undefined, feed |-> Undefined,
     message |-> message]

\* The handler awaits `call`.
PriceAwait(r, call, mc, ctx) ==
    Effect([Log(r, <<call>>) EXCEPT !.pc = "price", !.price.awaiting = call],
           mc, ctx, NoResp)

\* Lines 771-798: the final check, and the catch around the handler's body.
PriceFinal(r, mc, ctx, isReady) ==
    LET l == r.price
    IN  IF l.tokenPrice.kind = "number"
        THEN Complete(r,
                 TextResult("Current price of "
                            \o OrElse(OrElse(l.determinedSymbol, l.mint_address), l.symbol).val
                            \o " is $" \o ToFixed6(l.tokenPrice.val) \o " USD."),
                 mc, ctx, isReady)
        ELSE Throw(r,
                 Error(Num(-32000),
                       "Error fetching price: "
                       \o (IF l.anErrorOccurred # Null THEN l.anErrorOccurred.val
                           ELSE "Could not determine price for "
                                \o OrElse(l.mint_address, l.symbol).val)),
                 mc, ctx)

\* Lines 745-768: getPythPrice, when a feed is known.
PricePyth(r, mc, ctx, isReady) ==
    LET l == r.price
    IN  IF Truthy(l.feedIdToUse)
        THEN PriceAwait([r EXCEPT !.upstream = @ + 1], "vybe.getPythPrice", mc, ctx)
        ELSE IF l.tokenPrice = Undefined /\ l.anErrorOccurred = Null
        THEN PriceFinal([r EXCEPT !.price.anErrorOccurred =
                             Str("No Pyth price feed identified for symbol "
                                 \o l.determinedSymbol.val)],
                        mc, ctx, isReady)
        ELSE PriceFinal(r, mc, ctx, isReady)

\* Lines 727-743: 4, Pyth through Vybe: the feed of the symbol.
PriceFeed(r, mc, ctx, isReady) ==
    LET l == r.price
    IN  IF l.tokenPrice = Undefined /\ Truthy(l.determinedSymbol)
        THEN LET upperSymbol == ToUpperCase(l.determinedSymbol.val)
             IN  IF upperSymbol = "SOL"
                 THEN PricePyth([r EXCEPT !.price.feedIdToUse = Str(SOL_PYTH_FEED_ID_MAINNET)],
                                mc, ctx, isReady)
                 ELSE IF upperSymbol = "USDC"
                 THEN PricePyth([r EXCEPT !.price.feedIdToUse = Str(USDC_PYTH_FEED_ID_MAINNET)],
                                mc, ctx, isReady)
                 ELSE PriceAwait([r EXCEPT !.upstream = @ + 1], "vybe.getPythAccounts", mc, ctx)
        ELSE PriceFinal(r, mc, ctx, isReady)

\* A step 3 that asks CoinGecko by symbol whether or not a price is known.
PriceSimpleAlways(r, mc, ctx, isReady) ==
    LET l == r.price
    IN  IF Truthy(l.determinedSymbol)
           /\ ToUpperCase(l.determinedSymbol.val) \in DOMAIN COINGECKO_ID_MAP
        THEN PriceAwait(r, "coingecko.simple", mc, ctx)
        ELSE PriceFeed(r, mc, ctx, isReady)

\* Lines 693-725: 3, CoinGecko by the id of the symbol.
PriceSimple(r, mc, ctx, isReady) ==
    LET l == r.price
    IN  IF l.tokenPrice = Undefined /\ Truthy(l.determinedSymbol)
           /\ ToUpperCase(l.determinedSymbol.val) \in DOMAIN COINGECKO_ID_MAP
        THEN PriceAwait(r, "coingecko.simple", mc, ctx)
        ELSE PriceFeed(r, mc, ctx, isReady)

\* Lines 661-691: 2, CoinGecko by contract address.
PriceContract(r, mc, ctx, isReady) ==
    LET l == r.price
    IN  IF l.tokenPrice = Undefined /\ Truthy(l.mint_address)
        THEN PriceAwait(r, "coingecko.contract", mc, ctx)
        ELSE PriceSimple(r, mc, ctx, isReady)

\* The awaited call has returned `out` (or thrown): the rest of its try
\* block, and the handler up to its next await.  fetch and the json() of its
\* response are one call.
AfterPrice(r0, out, mc, ctx, isReady) ==
    LET l == r0.price
        r == [r0 EXCEPT !.price.calls = Append(@, [call |-> l.awaiting, out |-> out]),
                        !.price.awaiting = ""]
        failed == [r EXCEPT !.price.anErrorOccurred = Str(out.message)]
        priced == out.kind = "data" /\ Truthy(out.price)
    IN  CASE l.awaiting = "vybe.getTokenDetails" ->
               IF out.kind = "throw" THEN PriceContract(failed, mc, ctx, isReady)
               ELSE LET symbol1 == IF priced THEN OrElse(out.symbol, l.mint_address)
                                   ELSE OrElse(out.symbol, l.symbol)
                        symbol2 == IF l.mint_address = Str(WRAPPED_SOL_MINT) /\ ~Truthy(symbol1)
                                   THEN Str("SOL") ELSE symbol1
                    IN  PriceContract([r EXCEPT !.price.tokenPrice =
                                                    IF priced THEN out.price ELSE @,
                                                !.price.determinedSymbol = symbol2],
                                      mc, ctx, isReady)
          [] l.awaiting = "coingecko.contract" ->
               IF out.kind = "throw" THEN PriceSimple(failed, mc, ctx, isReady)
               ELSE IF priced
               THEN PriceSimple([r EXCEPT !.price.tokenPrice = out.price,
                                          !.price.determinedSymbol =
                                              OrElse(IF out.symbol.kind = "string"
                                                     THEN Str(ToUpperCase(out.symbol.val))
                                                     ELSE Undefined,
                                                     OrElse(l.determinedSymbol, l.mint_address)),
                                          !.price.anErrorOccurred = Null],
                                mc, ctx, isReady)
               ELSE PriceSimple(r, mc, ctx, isReady)
          [] l.awaiting = "coingecko.simple" ->
               IF out.kind = "throw" THEN PriceFeed(failed, mc, ctx, isReady)
               ELSE IF priced
               THEN PriceFeed([r EXCEPT !.price.tokenPrice = out.price,
                                        !.price.anErrorOccurred = Null],
                              mc, ctx, isReady)
               ELSE PriceFeed(r, mc, ctx, isReady)
          [] l.awaiting = "vybe.getPythAccounts" ->
               IF out.kind = "throw" THEN PricePyth(failed, mc, ctx, isReady)
               ELSE IF Truthy(out.feed)
               THEN PricePyth([r EXCEPT !.price.feedIdToUse = out.feed], mc, ctx, isReady)
               ELSE PricePyth(r, mc, ctx, isReady)
          [] OTHER ->
               IF out.kind = "throw" THEN PriceFinal(failed, mc, ctx, isReady)
               ELSE IF priced
               THEN PriceFinal([r EXCEPT !.price.tokenPrice = out.price,
                                         !.price.anErrorOccurred = Null],
                               mc, ctx, isReady)
               ELSE PriceFinal(r, mc, ctx, isReady)

\* Lines 607-638: the handler up to its first await; 1, Vybe token details.
TokenPrice(r, mc, ctx, isReady) ==
    LET params == r.body.params
        mint_address == Get(params, "mint_address")
        symbol == Get(params, "symbol")
        r1 == [r EXCEPT !.price = PriceLocals(mint_address, symbol)]
    IN  IF DestructureFails(params)
        THEN Throw(r, Error(Undefined, "Cannot destructure property of 'undefined'"), mc, ctx)
        ELSE IF ~Truthy(mint_address) /\ ~Truthy(symbol)
        THEN Throw(r, Error(Num(-32602), "Either mint_address or symbol is required"), mc, ctx)
        ELSE IF Truthy(mint_address)
        THEN PriceAwait([r1 EXCEPT !.upstream = @ + 1], "vybe.getTokenDetails", mc, ctx)
        ELSE PriceContract(r1, mc, ctx, isReady)

\* Lines 151-224: switch(method) and the handler it calls, up to the first await.
Invoke(r, mc, ctx, isReady) ==
    LET method == r.body.method.val
        r1 == Log(r, <<"handler">>)
    IN  CASE method \notin SupportedMethods ->
                Effect(r, mc, ctx,
                       ErrorResp(-32601, "Method '" \o method \o "' not found", r.body.id))
          [] method = "clear_context" -> ClearContext(r1, mc, ctx, isReady)
          [] method = "solana_token_price" -> TokenPrice(r1, mc, ctx, isReady)
          [] method \in {"openai_generate", "anthropic_generate"} -> Generate(r1, mc, ctx)
          [] OTHER -> Analytics(r1, mc, ctx)

\* Line 107 without its test of id.
EnvelopeValidNoId(body) ==
    body.jsonrpc = Str("2.0") /\ Truthy(body.method)

\* Line 107.
EnvelopeValid(body) ==
    body.jsonrpc = Str("2.0") /\ Truthy(body.method) /\ Truthy(body.id)

\* A dispatcher that asks Redis, when it is ready, before it looks into tier 1.
HandleRedisFirst(r, mc, ctx, isReady) ==
    LET body == r.body
    IN  IF ~EnvelopeValid(body)
        THEN Effect(r, mc, ctx, ErrorResp(-32600, "Invalid JSON-RPC request", Null))
        ELSE IF body.method.kind # "string"
        THEN Throw(r, Error(Undefined, "method.includes is not a function"), mc, ctx)
        ELSE IF IsCacheable(body.method.val)
        THEN LET cacheKey == CacheKey(body.method.val, body.params)
                 cachedResult == T1Get(mc, cacheKey)
                 mc1 == T1AfterGet(mc, cacheKey)
             IN  IF redisClient /\ isReady
                 THEN Effect([Log(r, <<"isReady:true", "t2.get">>) EXCEPT !.pc = "redis_get"],
                             mc, ctx, NoResp)
                 ELSE IF Truthy(cachedResult)
                 THEN Effect([Log(r, <<"t1.get:hit">>) EXCEPT !.basis = mc[cacheKey].owner],
                             mc1, ctx, ResultResp(cachedResult, body.id))
                 ELSE Invoke(Log(r, <<"t1.get:miss">> \o ReadyEvents(isReady)), mc1, ctx, isReady)
        ELSE Invoke(r, mc, ctx, isReady)

\* Lines 98-151: a request arrives; the dispatcher up to its first await.
\* `isReady` is what redisClient.isReady reads in this segment.
Handle(r, mc, ctx, isReady) ==
    LET body == r.body
    IN  IF ~EnvelopeValid(body)
        THEN Effect(r, mc, ctx, ErrorResp(-32600, "Invalid JSON-RPC request", Null))
        ELSE IF body.method.kind # "string"
        THEN Throw(r, Error(Undefined, "method.includes is not a function"), mc, ctx)
        ELSE IF IsCacheable(body.method.val)
        THEN LET cacheKey == CacheKey(body.method.val, body.params)
                 cachedResult == T1Get(mc, cacheKey)
                 mc1 == T1AfterGet(mc, cacheKey)
             IN  IF Truthy(cachedResult)
                 THEN Effect([Log(r, <<"t1.get:hit">>) EXCEPT !.basis = mc[cacheKey].owner],
                             mc1, ctx, ResultResp(cachedResult, body.id))
                 ELSE IF redisClient /\ isReady
                 THEN Effect([Log(r, <<"t1.get:miss", "isReady:true", "t2.get">>)
                                 EXCEPT !.pc = "redis_get"],
                             mc1, ctx, NoResp)
                 ELSE Invoke(Log(r, <<"t1.get:miss">> \o ReadyEvents(isReady)), mc1, ctx, isReady)
        ELSE Invoke(r, mc, ctx, isReady)

(***************************************************************************)
(* The continuations: what runs when an awaited call returns.              *)
(***************************************************************************)
\* redisClient.set(cacheKey, JSON.stringify(result), { EX: 300 }) as the server
\* keeps it.  orig, method and params are history: the value that was written.
\* An entry Redis keeps for twice the time.
T2EntryKeptLonger(method, params, result) ==
    [text |-> StringifyTokens(result), life |-> 2 * RedisEX, orig |-> result,
     method |-> method, params |-> params, age |-> 0, late |-> 0]

T2Entry(method, params, result) ==
    [text |-> StringifyTokens(result), life |-> RedisEX, orig |-> result,
     method |-> method, params |-> params, age |-> 0, late |-> 0]

T2Set(store, key, r) ==
    With(store, key, [T2Entry(r.body.method, r.body.params, r.result)
                         EXCEPT !.age = r.age, !.late = r.age])

\* A tier-2 hit that is returned without being copied into tier 1.
AfterRedisGetNoPromote(r, reply, mc, ctx, isReady) ==
    LET parsed == JSONparse(reply.text)
    IN  IF reply.kind = "error"
        THEN Invoke(Log(r, <<"t2.get:error">>), mc, ctx, isReady)
        ELSE IF reply.kind = "nil" \/ Len(reply.text) = 0
        THEN Invoke(Log(r, <<"t2.get:miss">>), mc, ctx, isReady)
        ELSE IF ~parsed.ok
        THEN Invoke(Log(r, <<"t2.get:unparsable">>), mc, ctx, isReady)
        ELSE Effect([Log(r, <<"t2.get:hit">>) EXCEPT !.reply = reply],
                    mc, ctx, ResultResp(parsed.v, r.body.id))

\* Lines 134-148: redisClient.get has returned (or thrown).
AfterRedisGet(r, reply, mc, ctx, isReady) ==
    LET key == CacheKey(r.body.method.val, r.body.params)
        parsed == JSONparse(reply.text)
    IN  IF reply.kind = "error"
        THEN Invoke(Log(r, <<"t2.get:error">>), mc, ctx, isReady)
        ELSE IF reply.kind = "nil" \/ Len(reply.text) = 0
        THEN Invoke(Log(r, <<"t2.get:miss">>), mc, ctx, isReady)
        ELSE IF ~parsed.ok
        THEN Invoke(Log(r, <<"t2.get:unparsable">>), mc, ctx, isReady)
        ELSE Effect([Log(r, <<"t2.get:hit", "t1.set">>) EXCEPT !.basis = r.slot, !.reply = reply],
                    T1Set(mc, key, parsed.v, r, "tier2"), ctx, ResultResp(parsed.v, r.body.id))

\* A handler that waits for every call and composes from what has arrived
\* (Promise.allSettled).
AfterUpstreamSettled(r, i, out, mc, ctx, isReady) ==
    LET method == r.body.method.val
        h == HandlerTable[method]
        got == [r.got EXCEPT ![i] = out]
        r1 == IF out = "fail" THEN Log([r EXCEPT !.got = got], <<"vybe:fail">>)
              ELSE [r EXCEPT !.got = got]
    IN  IF \E j \in 1..Len(got) : got[j] = "pending"
        THEN Effect(r1, mc, ctx, NoResp)
        ELSE IF r.stage < Len(Stages(r.body))
        THEN Effect(Issue(r1, r.stage + 1), mc, ctx, NoResp)
        ELSE Complete(r1, TextResult(ComposeText(method, r.body.params, got)), mc, ctx, isReady)

\* One Vybe call of the awaited Promise.all has settled: `out` is a payload, or
\* "fail".  Promise.all rejects on the first rejection; the handler's catch
\* rethrows it with the handler's prefix and code -32000.
AfterUpstream(r, i, out, mc, ctx, isReady) ==
    LET method == r.body.method.val
        h == HandlerTable[method]
        got == [r.got EXCEPT ![i] = out]
        r1 == [r EXCEPT !.got = got]
    IN  IF out = "fail"
        THEN Throw(Log(r, <<"vybe:fail">>),
                   Error(Num(-32000), h.prefix \o "Vybe API request failed"), mc, ctx)
        ELSE IF \E j \in 1..Len(got) : got[j] = "pending"
        THEN Effect(r1, mc, ctx, NoResp)
        ELSE IF r.stage < Len(Stages(r.body))
        THEN Effect(Issue(r1, r.stage + 1), mc, ctx, NoResp)
        ELSE Complete(r1, TextResult(ComposeText(method, r.body.params, got)), mc, ctx, isReady)

\* Lines 322-328 and 395-401.
\* No truncation.
TruncateNever(updatedMessages) == updatedMessages

\* slice(0, 10): the ten oldest turns.
TruncateFirstTen(updatedMessages) ==
    IF Len(updatedMessages) > 10 THEN SubSeq(updatedMessages, 1, 10) ELSE updatedMessages

\* slice(-10): the ten most recent turns.
TruncateLastTen(updatedMessages) ==
    IF Len(updatedMessages) > 10
    THEN SubSeq(updatedMessages, Len(updatedMessages) - 9, Len(updatedMessages))
    ELSE updatedMessages

\* The first turn and the ten most recent: [0] and slice(-10).
TruncateFirstAndLastTen(updatedMessages) ==
    IF Len(updatedMessages) > 10
    THEN <<updatedMessages[1]>>
         \o SubSeq(updatedMessages, Len(updatedMessages) - 9, Len(updatedMessages))
    ELSE updatedMessages

\* Lines 322-328 and 395-401: contextToStore.
Truncate(updatedMessages) ==
    IF Len(updatedMessages) > 10
    THEN <<updatedMessages[1]>>
         \o SubSeq(updatedMessages, Len(updatedMessages) - 8, Len(updatedMessages))
    ELSE updatedMessages

\* Every failure is worth another attempt.
RetryableAny(status) == TRUE

\* A loop that also retries the errors of the caller (status 400 and up).
RetryableFrom400(status) == status.kind = "number" /\ status.val >= 400

\* Lines 307 and 381: the failure is worth another attempt.
Retryable(status) == status.kind = "number" /\ (status.val = 429 \/ status.val >= 500)

MaxAttempts == 3

ProviderOk(text) == [ok |-> TRUE, text |-> text, status |-> Undefined]

ProviderError(status, message) == [ok |-> FALSE, text |-> message, status |-> status]

\* The same wait before every retry.
WaitTimeFixed(attempts) == 2000

\* Lines 310 and 384: waitTime, in milliseconds.
WaitTime(attempts) == 2 ^ attempts * 1000

\* A handler that adds its turns to what the store holds when the provider
\* answers, and not to the turns it read when it began.
AfterProviderReadsAgain(r0, out, mc, ctx, isReady) ==
    LET r == [r0 EXCEPT !.outs = Append(@, out)]
        method == r.body.method.val
        session_id == Get(r.body.params, "session_id")
        attempts == r.attempts + 1
    IN  IF out.ok
        THEN LET now == IF session_id \in DOMAIN ctx THEN ctx[session_id] ELSE <<>>
                 updatedMessages ==
                     now \o << r.messages[Len(r.messages)], Turn("assistant", out.text) >>
             IN  Complete(Log(r, <<"ctx.set">>), TextResult(out.text), mc,
                          With(ctx, session_id, Truncate(updatedMessages)), isReady)
        ELSE IF attempts >= MaxAttempts \/ ~Retryable(out.status)
        THEN Throw([r EXCEPT !.attempts = attempts],
                   Error(Num(-32000), ProviderPrefix(method) \o out.text), mc, ctx)
        ELSE Effect([r EXCEPT !.attempts = attempts, !.pc = "backoff",
                              !.waits = Append(@, WaitTime(attempts))],
                    mc, ctx, NoResp)

\* A loop that retries the one provider only: a failed Anthropic call is final.
AfterProviderAnthropicOnce(r0, out, mc, ctx, isReady) ==
    LET r == [r0 EXCEPT !.outs = Append(@, out)]
        method == r.body.method.val
        session_id == Get(r.body.params, "session_id")
        attempts == r.attempts + 1
    IN  IF out.ok
        THEN LET updatedMessages == Append(r.messages, Turn("assistant", out.text))
             IN  Complete(Log(r, <<"ctx.set">>), TextResult(out.text), mc,
                          With(ctx, session_id, Truncate(updatedMessages)), isReady)
        ELSE IF attempts >= MaxAttempts \/ ~Retryable(out.status)
                \/ method = "anthropic_generate"
        THEN Throw([r EXCEPT !.attempts = attempts],
                   Error(Num(-32000), ProviderPrefix(method) \o out.text), mc, ctx)
        ELSE Effect([r EXCEPT !.attempts = attempts, !.pc = "backoff",
                              !.waits = Append(@, WaitTime(attempts))],
                    mc, ctx, NoResp)

\* Lines 298-339 and 372-412: the provider call has returned (or thrown).
AfterProvider(r0, out, mc, ctx, isReady) ==
    LET r == [r0 EXCEPT !.outs = Append(@, out)]
        method == r.body.method.val
        session_id == Get(r.body.params, "session_id")
        attempts == r.attempts + 1
    IN  IF out.ok
        THEN LET updatedMessages == Append(r.messages, Turn("assistant", out.text))
             IN  Complete(Log(r, <<"ctx.set">>), TextResult(out.text), mc,
                          With(ctx, session_id, Truncate(updatedMessages)), isReady)
        ELSE IF attempts >= MaxAttempts \/ ~Retryable(out.status)
        THEN Throw([r EXCEPT !.attempts = attempts],
                   Error(Num(-32000), ProviderPrefix(method) \o out.text), mc, ctx)
        ELSE Effect([r EXCEPT !.attempts = attempts, !.pc = "backoff",
                              !.waits = Append(@, WaitTime(attempts))],
                    mc, ctx, NoResp)

\* A loop that builds its message list anew, from the store, for each attempt.
AfterBackoffReadsAgain(r, mc, ctx) ==
    LET session_id == Get(r.body.params, "session_id")
        previousMessages == IF session_id \in DOMAIN ctx THEN ctx[session_id] ELSE <<>>
    IN  Effect([Log(r, <<"provider">>)
                   EXCEPT !.pc = "provider", !.provider = @ + 1,
                          !.messages = Append(previousMessages, r.messages[Len(r.messages)])],
               mc, ctx, NoResp)

\* Line 312 has resolved: the loop makes the next attempt.
AfterBackoff(r, mc, ctx) ==
    Effect([Log(r, <<"provider">>) EXCEPT !.pc = "provider", !.provider = @ + 1],
           mc, ctx, NoResp)

\* Line 232 without the try around it: a failed write reaches the outer catch.
AfterRedisSetThrows(r, ok, mc, ctx) ==
    IF ok
    THEN Effect(Log(r, <<"t2.set:ok">>), mc, ctx, ResultResp(r.result, r.body.id))
    ELSE Throw(Log(r, <<"t2.set:error">>), Error(Undefined, "Connection is closed"), mc, ctx)

\* Lines 232-251: redisClient.set has returned (or thrown).
AfterRedisSet(r, ok, mc, ctx) ==
    Effect(Log(r, <<IF ok THEN "t2.set:ok" ELSE "t2.set:error">>), mc, ctx,
           ResultResp(r.result, r.body.id))

(***************************************************************************)
(* Actions.                                                                *)
(***************************************************************************)
\* A tier-1 entry remembers the result a caller got from it (history): the
\* response of the request that wrote it, or of a request it served.
Answered(mc, r, resp) ==
    IF resp.kind = "result" /\ r.body.method.kind = "string" /\ IsCacheable(r.body.method.val)
    THEN LET key == CacheKey(r.body.method.val, r.body.params)
         IN  IF key \in DOMAIN mc /\ mc[key].owner = r.basis
             THEN [mc EXCEPT ![key].answered = resp.result]
             ELSE mc
    ELSE mc

\* params.session_id of a request.
SessionOf(body) == Get(body.params, "session_id")

\* Another request is in the middle of a generative call on the session.
InFlightOn(sid, s) ==
    \E t \in Slots \ {s} :
        reqs[t].pc \in {"provider", "backoff"} /\ SessionOf(reqs[t].body) = sid

\* The call that last wrote a session: the turns it read when it began, and
\* the two turns it added.
Writer(snapshot, user, assistant) ==
    [snapshot |-> snapshot, user |-> user, assistant |-> assistant]

NoWriter == Writer(<<>>, Undefined, Undefined)

\* The history of the sessions after a segment of the request in slot s.  A
\* session's history is every turn its successful calls have appended since
\* it began, the call that wrote it last (writer), and whether those calls
\* ran one at a time (clean): a call that
\* starts while another is in flight, or a clear while one is in flight, ends
\* that; a clear with no call in flight begins the session anew.
Recorded(s, e) ==
    LET sid == SessionOf(e.r.body)
        Did(ev) == /\ \E i \in 1..Len(e.r.trace) : e.r.trace[i] = ev
                   /\ ~\E i \in 1..Len(reqs[s].trace) : reqs[s].trace[i] = ev
        old == IF sid \in DOMAIN history THEN history[sid]
               ELSE [turns |-> <<>>, clean |-> TRUE, writer |-> NoWriter]
        assistant == [role |-> "assistant", content |-> e.r.outs[Len(e.r.outs)].text]
    IN  IF Did("ctx.delete")
        THEN IF InFlightOn(sid, s)
             THEN With(history, sid, [turns |-> <<>>, clean |-> FALSE, writer |-> NoWriter])
             ELSE Without(history, sid)
        ELSE IF Did("ctx.set")
        THEN With(history, sid,
                  [old EXCEPT !.turns = @ \o << e.r.messages[Len(e.r.messages)], assistant >>,
                              !.writer = Writer(e.r.prior, e.r.messages[Len(e.r.messages)],
                                                assistant)])
        ELSE IF Did("ctx.get") /\ InFlightOn(sid, s)
        THEN With(history, sid, [old EXCEPT !.clean = FALSE])
        ELSE history

\* The state after a segment: the request goes on waiting, or its response is
\* sent and recorded.
Apply(s, effect) ==
    \E e \in {effect} :
        /\ contextStore' = e.ctx
        /\ history' = Recorded(s, e)
        /\ IF e.resp.kind = "none"
           THEN /\ reqs' = [reqs EXCEPT ![s] = e.r]
                /\ memoryCache' = e.mc
                /\ sent' = Idle
           ELSE /\ reqs' = [reqs EXCEPT ![s] = Idle]
                /\ memoryCache' = Answered(e.mc, e.r, e.resp)
                /\ sent' = [e.r EXCEPT !.pc = "done", !.slot = "", !.basis = "", !.resp = e.resp]

\* The result this request must repeat: the one last returned from the tier-1
\* entry under its key, when that entry is in the cache, alive.
Previous(body) ==
    IF EnvelopeValid(body) /\ body.method.kind = "string" /\ IsCacheable(body.method.val)
    THEN LET key == CacheKey(body.method.val, body.params)
         IN  IF T1Live(memoryCache, key) /\ memoryCache[key].answered # Undefined
             THEN [result |-> memoryCache[key].answered, src |-> memoryCache[key].src]
             ELSE NoAnswer
    ELSE NoAnswer

\* Two parameter objects with the same properties, in any order.
SameParams(p, q) ==
    /\ p.kind = q.kind
    /\ IF p.kind = "object"
       THEN {p.val[i] : i \in 1..Len(p.val)} = {q.val[i] : i \in 1..Len(q.val)}
       ELSE p = q

\* The results last returned from the live tier-1 entries of the same method
\* and of parameters with the same properties as this request's.
PreviousEqual(body) ==
    { memoryCache[k].answered :
        k \in { x \in DOMAIN memoryCache :
                  /\ memoryCache[x].life >= 0
                  /\ memoryCache[x].answered # Undefined
                  /\ memoryCache[x].method = body.method
                  /\ SameParams(memoryCache[x].params, body.params) } }

\* What redisClient.isReady can read: the connection is up or down.
IsReady == IF redisClient THEN BOOLEAN ELSE {FALSE}

Rank(s) == IF s = "r1" THEN 1 ELSE 2

\* A middleware that lets every request with a key through.
AuthorizedAnyKey(apiKey) == Truthy(apiKey)

\* Line 79: authMiddleware calls next().
Authorized(apiKey) == Truthy(apiKey) /\ apiKey = ServerApiKey

\* Lines 81-88: the body authMiddleware answers with.
Unauthorized == ErrorResp(-32000, "Unauthorized", Null)

\* POST /mcp with `body`, past authMiddleware.  The request takes the first
\* free slot.
Admit(s, body, apiKey) ==
    /\ reqs[s].pc = "idle"
    /\ \A t \in Slots : reqs[t].pc = "idle" => Rank(s) <= Rank(t)
    /\ started < MaxRequests
    /\ started' = started + 1
    /\ \E isReady \in IsReady :
          Apply(s, Handle([Idle EXCEPT !.pc = "run", !.body = body, !.slot = s,
                                       !.apiKey = apiKey,
                                       !.prev = Previous(body),
                                       !.equal = PreviousEqual(body),
                                       !.prior = IF SessionOf(body) \in DOMAIN contextStore
                                                 THEN contextStore[SessionOf(body)]
                                                 ELSE <<>>],
                          memoryCache, contextStore, isReady))
    /\ UNCHANGED <<redisStore, redisClient>>

\* POST /mcp with `body` and the key of the caller the model has.
Receive(s, body) == Admit(s, body, ServerApiKey)

\* Lines 76-94: authMiddleware answers the request itself.
Reject(body, apiKey) ==
    /\ started < MaxRequests
    /\ started' = started + 1
    /\ sent' = [Idle EXCEPT !.pc = "done", !.body = body, !.apiKey = apiKey,
                             !.resp = Unauthorized]
    /\ UNCHANGED <<reqs, memoryCache, redisStore, redisClient, contextStore, history>>

\* POST /mcp with `body` and the header x-api-key: apiKey.
Post(s, body, apiKey) ==
    IF Authorized(apiKey) THEN Admit(s, body, apiKey)
    ELSE s = "r1" /\ Reject(body, apiKey)

\* What the Redis server answers to get(key): the text it holds, or nil; the
\* call can also fail, and the key can hold a text that is no JSON.
RedisReplies(key) ==
    { IF key \in DOMAIN redisStore
      THEN TextReply(redisStore[key].text, redisStore[key].orig)
      ELSE NilReply,
      ErrorReply,
      TextReply(<<Punct("{")>>, Undefined) }

RedisGetReturn(s) ==
    /\ reqs[s].pc = "redis_get"
    /\ \E reply \in RedisReplies(CacheKey(reqs[s].body.method.val, reqs[s].body.params)),
          isReady \in IsReady :
          Apply(s, AfterRedisGet(reqs[s], reply, memoryCache, contextStore, isReady))
    /\ UNCHANGED <<redisStore, redisClient, started>>

\* A pending Vybe call of request s settles to one of `outcomes`.
UpstreamSettles(s, outcomes) ==
    /\ reqs[s].pc = "upstream"
    /\ \E i \in 1..Len(reqs[s].got), out \in outcomes, isReady \in IsReady :
          /\ reqs[s].got[i] = "pending"
          /\ Apply(s, AfterUpstream(reqs[s], i, out, memoryCache, contextStore, isReady))
    /\ UNCHANGED <<redisStore, redisClient, started>>

UpstreamReturn(s) == UpstreamSettles(s, Payloads \cup {"fail"})

\* What each call of handleSolanaTokenPrice can return.
PriceOutcomes(call) ==
    CASE call = "vybe.getTokenDetails" ->
            { PriceData(Num(1), Str("JUP")), PriceData(Undefined, Str("JUP")),
              PriceData(Undefined, Undefined), Threw("Vybe API request failed") }
      [] call = "coingecko.contract" ->
            { PriceData(Num(2), Str("jup")), NotOk, Threw("fetch failed") }
      [] call = "coingecko.simple" ->
            { PriceData(Num(3), Undefined), PriceData(Undefined, Undefined),
              Threw("fetch failed") }
      [] call = "vybe.getPythAccounts" ->
            { FeedData(Str("F")), FeedData(Undefined), Threw("Vybe API request failed") }
      [] OTHER ->
            { PriceData(Num(4), Undefined), PriceData(Undefined, Undefined),
              Threw("Vybe API request failed") }

PriceReturn(s) ==
    /\ reqs[s].pc = "price"
    /\ \E out \in PriceOutcomes(reqs[s].price.awaiting), isReady \in IsReady :
          Apply(s, AfterPrice(reqs[s], out, memoryCache, contextStore, isReady))
    /\ UNCHANGED <<redisStore, redisClient, started>>

ProviderOutcomes ==
    { ProviderOk("r1"),
      ProviderError(Num(429), "rate limited"),
      ProviderError(Num(500), "server error"),
      ProviderError(Num(400), "bad request"),
      ProviderError(Undefined, "connection reset") }

ProviderReturn(s) ==
    /\ reqs[s].pc = "provider"
    /\ \E out \in ProviderOutcomes, isReady \in IsReady :
          Apply(s, AfterProvider(reqs[s], out, memoryCache, contextStore, isReady))
    /\ UNCHANGED <<redisStore, redisClient, started>>

BackoffFire(s) ==
    /\ reqs[s].pc = "backoff"
    /\ Apply(s, AfterBackoff(reqs[s], memoryCache, contextStore))
    /\ UNCHANGED <<redisStore, redisClient, started>>

RedisSetReturn(s) ==
    /\ reqs[s].pc = "redis_set"
    /\ \E ok \in BOOLEAN :
          /\ redisStore' =
               IF ok
               THEN T2Set(redisStore,
                          CacheKey(reqs[s].body.method.val, reqs[s].body.params), reqs[s])
               ELSE redisStore
          /\ Apply(s, AfterRedisSet(reqs[s], ok, memoryCache, contextStore))
    /\ UNCHANGED <<redisClient, started>>

\* Time passes, in steps of the tier-1 TTL.  Redis drops an entry when its EX
\* has run out.  A result that awaits the answer of Redis to its set grows
\* older with the entries.
Tick ==
    /\ memoryCache' = [k \in DOMAIN memoryCache |->
                         IF memoryCache[k].life < 0 THEN memoryCache[k]
                         ELSE [memoryCache[k] EXCEPT !.life = @ - StdTTL,
                                                     !.age = @ + StdTTL]]
    /\ redisStore' =
         LET left == {k \in DOMAIN redisStore : redisStore[k].life - StdTTL > 0}
         IN  [k \in left |-> [redisStore[k] EXCEPT !.life = @ - StdTTL,
                                                   !.age = @ + StdTTL]]
    /\ memoryCache' # memoryCache \/ redisStore' # redisStore
    /\ reqs' = [s \in Slots |->
                  IF reqs[s].pc = "redis_set" THEN [reqs[s] EXCEPT !.age = @ + StdTTL]
                  ELSE reqs[s]]
    /\ sent' = Idle
    /\ UNCHANGED <<redisClient, contextStore, started, history>>

\* NodeCache's periodic check (every Checkperiod seconds) deletes the expired
\* entries.
CheckData ==
    /\ \E k \in DOMAIN memoryCache : memoryCache[k].life < 0
    /\ memoryCache' = [k \in {x \in DOMAIN memoryCache : memoryCache[x].life >= 0} |->
                         memoryCache[k]]
    /\ sent' = Idle
    /\ UNCHANGED <<reqs, redisStore, redisClient, contextStore, started, history>>

\* What a Redis server can hold when the process starts: nothing, or an entry
\* an earlier run of the program has written.
WarmStore ==
    LET method == "solana_token_details"
    IN  With(Empty, CacheKey(method, ParamsM),
             T2Entry(Str(method), ParamsM, TextResult(ComposeText(method, ParamsM, <<"d1">>))))

\* Lines 41-57: the process has started.  redisClient is null when REDIS_URL is
\* not set.
Init ==
    /\ reqs = [s \in Slots |-> Idle]
    /\ memoryCache = Empty
    /\ redisClient \in BOOLEAN
    /\ redisStore \in (IF redisClient THEN {Empty, WarmStore} ELSE {Empty})
    /\ contextStore = Empty
    /\ started = 0
    /\ sent = Idle
    /\ history = Empty

\* The cache orchestration around the analytics handlers.
NextCache ==
    \/ \E s \in Slots, body \in CacheBodies : Receive(s, body)
    \/ \E s \in Slots : RedisGetReturn(s)
    \/ \E s \in Slots : UpstreamReturn(s)
    \/ \E s \in Slots : RedisSetReturn(s)
    \/ Tick
    \/ CheckData

SpecCache == Init /\ [][NextCache]_vars

\* The same with the parameters of one request in either order.
NextKey ==
    \/ \E s \in Slots, body \in KeyBodies : Receive(s, body)
    \/ \E s \in Slots : RedisGetReturn(s)
    \/ \E s \in Slots : UpstreamReturn(s)
    \/ Tick
    \/ CheckData

SpecKey == Init /\ [][NextKey]_vars

\* The dispatcher with every kind of request.
Next ==
    \/ \E s \in Slots, body \in Bodies : Receive(s, body)
    \/ \E s \in Slots : RedisGetReturn(s)
    \/ \E s \in Slots : UpstreamReturn(s)
    \/ \E s \in Slots : ProviderReturn(s)
    \/ \E s \in Slots : BackoffFire(s)
    \/ \E s \in Slots : RedisSetReturn(s)
    \/ Tick
    \/ CheckData

Spec == Init /\ [][Next]_vars

\* The dispatcher with the methods that are not cached.
NextFresh ==
    \/ \E s \in Slots, body \in FreshAndCachedBodies : Receive(s, body)
    \/ \E s \in Slots : RedisGetReturn(s)
    \/ \E s \in Slots : UpstreamReturn(s)
    \/ \E s \in Slots : ProviderReturn(s)
    \/ \E s \in Slots : BackoffFire(s)
    \/ \E s \in Slots : RedisSetReturn(s)

SpecFresh == Init /\ [][NextFresh]_vars

\* solana_token_price, one request after the other, without Redis.
InitPrice == Init /\ redisClient = FALSE

NextPrice ==
    \/ \E body \in PriceBodies : Receive("r1", body)
    \/ \E s \in Slots : PriceReturn(s)

SpecPrice == InitPrice /\ [][NextPrice]_vars

\* The dispatcher with the requests that fail.
NextErr ==
    \/ \E s \in Slots, body \in ErrBodies : Receive(s, body)
    \/ \E s \in Slots : RedisGetReturn(s)
    \/ \E s \in Slots : UpstreamReturn(s)
    \/ \E s \in Slots : ProviderReturn(s)
    \/ \E s \in Slots : BackoffFire(s)
    \/ \E s \in Slots : RedisSetReturn(s)
    \/ Tick
    \/ CheckData

SpecErr == Init /\ [][NextErr]_vars

\* The dispatcher with requests of every kind of id.
NextId ==
    \/ \E s \in Slots, body \in IdBodies : Receive(s, body)
    \/ \E s \in Slots : RedisGetReturn(s)
    \/ \E s \in Slots : UpstreamReturn(s)
    \/ \E s \in Slots : RedisSetReturn(s)
    \/ Tick
    \/ CheckData

SpecId == Init /\ [][NextId]_vars

\* The number of successful calls a session has behind it when the model
\* starts.
MaxPrior == 6

\* The turns of the k-th of those calls.
PriorCall(k) ==
    << Turn("user", "q" \o ToString(k)), Turn("assistant", "a" \o ToString(k)) >>

\* Every turn the first k calls appended, and what lines 316-329 left in the
\* store after them.
RECURSIVE PriorTurns(_)
PriorTurns(k) == IF k = 0 THEN <<>> ELSE PriorTurns(k - 1) \o PriorCall(k)

RECURSIVE PriorStored(_)
PriorStored(k) == IF k = 0 THEN <<>> ELSE Truncate(PriorStored(k - 1) \o PriorCall(k))

\* The history of a session after those calls.
PriorHistory(k) ==
    [turns |-> PriorTurns(k), clean |-> TRUE,
     writer |-> Writer(PriorStored(k - 1), PriorCall(k)[1], PriorCall(k)[2])]

\* The process has answered k generative calls on session "s", one after
\* the other.  REDIS_URL is not set.
InitGen ==
    /\ reqs = [s \in Slots |-> Idle]
    /\ memoryCache = Empty
    /\ redisClient = FALSE
    /\ redisStore = Empty
    /\ started = 0
    /\ sent = Idle
    /\ \E k \in 0..MaxPrior :
          IF k = 0
          THEN contextStore = Empty /\ history = Empty
          ELSE /\ contextStore = With(Empty, Str("s"), PriorStored(k))
               /\ history = With(Empty, Str("s"), PriorHistory(k))

\* The generative handlers and clear_context on one session.
NextGen ==
    \/ \E s \in Slots, body \in GenBodies : Receive(s, body)
    \/ \E s \in Slots : ProviderReturn(s)
    \/ \E s \in Slots : BackoffFire(s)

SpecGen == InitGen /\ [][NextGen]_vars

\* The same, where every provider call that is awaited returns and every
\* backoff timer that is set fires.
SpecGenLive ==
    /\ InitGen /\ [][NextGen]_vars
    /\ \A s \in Slots : WF_vars(ProviderReturn(s)) /\ WF_vars(BackoffFire(s))

\* The store holds any of the sessions "s" and "t", each after one or two
\* successful calls.  REDIS_URL is not set.
InitClear ==
    /\ reqs = [s \in Slots |-> Idle]
    /\ memoryCache = Empty
    /\ redisClient = FALSE
    /\ redisStore = Empty
    /\ started = 0
    /\ sent = Idle
    /\ \E held \in SUBSET {Str("s"), Str("t")}, k \in 1..2 :
          /\ contextStore = [sid \in held |-> PriorStored(k)]
          /\ history = [sid \in held |-> PriorHistory(k)]

\* clear_context and the generative handlers on two sessions.
NextClear ==
    \/ \E s \in Slots, body \in ClearBodies : Receive(s, body)
    \/ \E s \in Slots : ProviderReturn(s)
    \/ \E s \in Slots : BackoffFire(s)

SpecClear == InitClear /\ [][NextClear]_vars

\* The dispatcher with the handlers of several concurrent Vybe calls, each of
\* which returns its payload or fails.
NextMulti ==
    \/ \E s \in Slots, body \in MultiBodies : Receive(s, body)
    \/ \E s \in Slots : RedisGetReturn(s)
    \/ \E s \in Slots : UpstreamSettles(s, {"d1", "fail"})
    \/ \E s \in Slots : RedisSetReturn(s)

SpecMulti == Init /\ [][NextMulti]_vars

\* The dispatcher with the summary methods, whose Vybe calls can return
\* without data.
NextSummary ==
    \/ \E s \in Slots, body \in SummaryBodies : Receive(s, body)
    \/ \E s \in Slots : RedisGetReturn(s)
    \/ \E s \in Slots : UpstreamSettles(s, {"d1", NoData, "fail"})

SpecSummary == Init /\ [][NextSummary]_vars

\* The dispatcher with the cross analysis.
NextCross ==
    \/ \E s \in Slots, body \in CrossBodies : Receive(s, body)
    \/ \E s \in Slots : RedisGetReturn(s)
    \/ \E s \in Slots : UpstreamReturn(s)

SpecCross == Init /\ [][NextCross]_vars

\* The server with authMiddleware before the dispatcher.
NextAuth ==
    \/ \E s \in Slots, body \in AuthBodies, apiKey \in ApiKeys : Post(s, body, apiKey)
    \/ \E s \in Slots : RedisGetReturn(s)
    \/ \E s \in Slots : UpstreamReturn(s)
    \/ \E s \in Slots : ProviderReturn(s)
    \/ \E s \in Slots : BackoffFire(s)
    \/ \E s \in Slots : RedisSetReturn(s)

SpecAuth == Init /\ [][NextAuth]_vars

\* The dispatcher with the generative calls the repository's agent makes.
NextAgent ==
    \/ \E s \in Slots, body \in AgentBodies : Receive(s, body)
    \/ \E s \in Slots : ProviderReturn(s)
    \/ \E s \in Slots : BackoffFire(s)

SpecAgent == Init /\ [][NextAgent]_vars

\* The longest turn list given to the truncation, and the number the first
\* of its turns can carry.
MaxTurns == 12

MaxBase == 9

\* A list of n turns, user and assistant in turn, numbered from base.
TurnList(n, base) ==
    [i \in 1..n |-> Turn(IF i % 2 = 1 THEN "user" ELSE "assistant",
                         "t" \o ToString(base + i))]

\* A handler stands at line 321 with updatedMessages built.
InitTruncate ==
    /\ \E n \in 0..MaxTurns, base \in 0..MaxBase :
          reqs = [s \in Slots |->
                    IF s = "r1"
                    THEN [Idle EXCEPT !.pc = "truncate", !.slot = s,
                                      !.body = Body(Str("2.0"), Str("openai_generate"),
                                                    ParamsPS, Num(1)),
                                      !.messages = TurnList(n, base)]
                    ELSE Idle]
    /\ memoryCache = Empty
    /\ redisClient = FALSE
    /\ redisStore = Empty
    /\ contextStore = Empty
    /\ started = 1
    /\ sent = Idle
    /\ history = Empty

\* Lines 322-329: the list is truncated and stored.
TruncateAndStore(s) ==
    /\ reqs[s].pc = "truncate"
    /\ contextStore' = With(contextStore, SessionOf(reqs[s].body), Truncate(reqs[s].messages))
    /\ reqs' = [reqs EXCEPT ![s].pc = "stored"]
    /\ sent' = Idle
    /\ UNCHANGED <<memoryCache, redisStore, redisClient, started, history>>

NextTruncate == \E s \in Slots : TruncateAndStore(s)

SpecTruncate == InitTruncate /\ [][NextTruncate]_vars

\* The number of mints the wallets given to the merge hold between them.
MaxMints == 12

\* What wallet w holds of mint k: every second symbol and every third value
\* are missing.
Held(w, k) ==
    Token("m" \o ToString(k), IF k % 2 = 1 THEN "S" \o ToString(k) ELSE "",
          10 * w + k, IF k % 3 = 0 THEN NoValue ELSE 2 * k + w)

\* Wallet w with the mints lo..hi, ascending and descending.
Ascending(w, lo, hi) == [j \in 1..(hi - lo + 1) |-> Held(w, lo + j - 1)]

Descending(w, lo, hi) == [j \in 1..(hi - lo + 1) |-> Held(w, hi - j + 1)]

\* The wallets of the example: A holds 10 of mintX and 5 of mintY, B holds 3
\* of mintX.
ExampleResults ==
    << WalletResult(TRUE, <<Token("mintX", "X", 10, 20), Token("mintY", "Y", 5, 5)>>),
       WalletResult(TRUE, <<Token("mintX", "X", 3, 6)>>) >>

\* The token lists the merge is given: the first wallet holds the mints up to
\* a, the second the mints from b on, listed from the last, or has no data,
\* the third two mints next to each other, or none.
MergeInputs ==
    { [addresses |-> <<"A", "B">>, tokenResults |-> ExampleResults] }
    \cup
    { [addresses |-> addresses,
       tokenResults |-> SubSeq(<<WalletResult(TRUE, Ascending(1, 1, a)), second, third>>,
                               1, Len(addresses))] :
        addresses \in {<<"A", "B">>, <<"A", "B", "C">>, <<"A", "B", "A">>},
        a \in 0..MaxMints,
        second \in {WalletResult(FALSE, <<>>)}
                    \cup {WalletResult(TRUE, Descending(2, b, MaxMints)) : b \in 1..(MaxMints + 1)},
        third \in {WalletResult(TRUE, Ascending(3, c, c + 1)) : c \in 1..(MaxMints - 1)}
                   \cup {WalletResult(TRUE, <<>>)} }

\* handleSolanaCrossAnalysis stands at line 1171 with tokenResults in hand.
InitMerge ==
    /\ \E in \in MergeInputs :
          reqs = [s \in Slots |->
                    IF s = "r1"
                    THEN [Idle EXCEPT !.pc = "merge", !.slot = s,
                                      !.body = Body(Str("2.0"), Str("solana_cross_analysis"),
                                                    Obj(<<Prop("addresses",
                                                               AddressList(in.addresses))>>),
                                                    Num(1)),
                                      !.got = in.tokenResults]
                    ELSE Idle]
    /\ memoryCache = Empty
    /\ redisClient = FALSE
    /\ redisStore = Empty
    /\ contextStore = Empty
    /\ started = 1
    /\ sent = Idle
    /\ history = Empty

\* Lines 1171-1198: the token lists are merged and the entries to list are
\* picked.
Merge(s) ==
    /\ reqs[s].pc = "merge"
    /\ reqs' = [reqs EXCEPT ![s].pc = "merged",
                            ![s].result = Listed(CommonTokens(AddressesOf(reqs[s].body.params),
                                                              reqs[s].got))]
    /\ sent' = Idle
    /\ UNCHANGED <<memoryCache, redisStore, redisClient, contextStore, started, history>>

NextMerge == \E s \in Slots : Merge(s)

SpecMerge == InitMerge /\ [][NextMerge]_vars

\* The requests of SpecErr, where every call that is awaited returns and
\* every timer fires.
NextLive ==
    \/ \E s \in Slots, body \in ErrBodies : Receive(s, body)
    \/ \E s \in Slots : RedisGetReturn(s)
    \/ \E s \in Slots : UpstreamReturn(s)
    \/ \E s \in Slots : ProviderReturn(s)
    \/ \E s \in Slots : BackoffFire(s)
    \/ \E s \in Slots : RedisSetReturn(s)

SpecLive ==
    /\ Init /\ [][NextLive]_vars
    /\ \A s \in Slots :
          /\ WF_vars(RedisGetReturn(s))
          /\ WF_vars(UpstreamReturn(s))
          /\ WF_vars(ProviderReturn(s))
          /\ WF_vars(BackoffFire(s))
          /\ WF_vars(RedisSetReturn(s))

(***************************************************************************)
(* The properties.  They read the history the requests carry: `sent` is    *)
(* the request whose response the last step sent, with its trace.          *)
(***************************************************************************)
Has(tr, e) == \E i \in 1..Len(tr) : tr[i] = e

\* Every a in the trace comes after some b.
After(tr, a, b) == \A j \in 1..Len(tr) : tr[j] = a => \E i \in 1..(j - 1) : tr[i] = b

\* The requests under way, and the one just answered.
Live == {reqs[s] : s \in {t \in Slots : reqs[t].pc # "idle"}}
        \cup (IF sent.pc = "done" THEN {sent} ELSE {})

\* The request has passed line 107 with a method that is a string.
Passed(body) == EnvelopeValid(body) /\ body.method.kind = "string"

Cacheable(r) == Passed(r.body) /\ IsCacheable(r.body.method.val)

KeyOf(r) == CacheKey(r.body.method.val, r.body.params)

CacheEvents ==
    { "t1.get:hit", "t1.get:miss", "t1.set", "isReady:true", "isReady:false",
      "t2.get", "t2.get:hit", "t2.get:miss", "t2.get:error", "t2.get:unparsable",
      "t2.set", "t2.set:ok", "t2.set:error" }

\* jsonrpc is not exactly "2.0", or method is missing, or id is missing.
InvalidEnvelope(body) ==
    body.jsonrpc # Str("2.0") \/ body.method = Undefined \/ body.id = Undefined

\* C1: a request whose jsonrpc is not "2.0", or whose method or id is missing,
\* is answered with error -32600 and id null, and nothing else happens: its
\* trace is empty (no cache tier read or written, no handler), it has made no
\* Vybe and no provider call, and the step that answers it leaves both cache
\* tiers and the session store as they were.
C1_InvalidEnvelopeRejected ==
    [][ (sent'.pc = "done" /\ InvalidEnvelope(sent'.body)) =>
          /\ sent'.resp = ErrorResp(-32600, "Invalid JSON-RPC request", Null)
          /\ sent'.trace = <<>>
          /\ sent'.upstream = 0
          /\ sent'.provider = 0
          /\ memoryCache' = memoryCache
          /\ redisStore' = redisStore
          /\ contextStore' = contextStore ]_vars

\* An invalid request is rejected while tier 1 or the session store holds
\* something it could have touched.
C1_Witness ==
    /\ sent.pc = "done"
    /\ InvalidEnvelope(sent.body)
    /\ sent.resp.code = -32600
    /\ memoryCache # Empty \/ contextStore # Empty

\* C2: a request that passes the validation with a method that is none of the
\* 20 names of the switch is answered with error -32601 and its own id; no
\* handler has run, no Vybe or provider call was made, no cache tier was
\* written, and the step that answers it leaves both tiers and the session
\* store as they were.
C2_UnknownMethodNotFound ==
    [][ (/\ sent'.pc = "done"
         /\ Passed(sent'.body)
         /\ sent'.body.method.val \notin SupportedMethods) =>
          /\ Cardinality(SupportedMethods) = 20
          /\ sent'.resp.kind = "error"
          /\ sent'.resp.code = -32601
          /\ sent'.resp.id = sent'.body.id
          /\ ~Has(sent'.trace, "handler")
          /\ \A e \in {"t1.set", "t2.set", "ctx.set", "ctx.delete"} : ~Has(sent'.trace, e)
          /\ sent'.upstream = 0
          /\ sent'.provider = 0
          /\ memoryCache' = memoryCache
          /\ redisStore' = redisStore
          /\ contextStore' = contextStore ]_vars

\* An unknown method is answered after both tiers were looked up.
C2_Witness ==
    /\ sent.pc = "done"
    /\ sent.body.method = Str("solana_token_detail")
    /\ Has(sent.trace, "t2.get:miss")
    /\ sent.resp.code = -32601
    /\ sent.resp.id = Num(2)

\* C3: a request that arrives while the tier-1 entry under its key is alive
\* and has answered a request with the same method and the same params gets
\* that same result, at once, and makes no Vybe call.
C3_SecondServedFromTier1 ==
    \A r \in Live :
        r.prev.result # Undefined =>
            /\ r.pc = "done"
            /\ r.resp = ResultResp(r.prev.result, r.body.id)
            /\ r.upstream = 0
            /\ ~Has(r.trace, "handler")

\* The second of two requests is answered with the result the handler gave
\* the first.
C3_Witness ==
    /\ sent.pc = "done"
    /\ sent.prev.src = "handler"
    /\ sent.resp.kind = "result"
    /\ sent.resp.result = sent.prev.result
    /\ sent.upstream = 0

FreshMethods == {"openai_generate", "anthropic_generate", "clear_context"}

\* C4: openai_generate, anthropic_generate and clear_context are the methods
\* that are not cacheable.  A request for one of them never reads or writes a
\* cache tier and never waits for Redis; its first step is its handler; a
\* generative call that got as far as an answer from the provider has called
\* it, whatever came before; and no entry of either tier belongs to one of
\* these methods.  (The first conjunct is about the names alone: it is
\* evaluated in the initial states.)
C4_FreshMethodsNeverCached ==
    /\ started = 0 => {m \in SupportedMethods : ~IsCacheable(m)} = FreshMethods
    /\ \A r \in Live :
          (Passed(r.body) /\ r.body.method.val \in FreshMethods) =>
              /\ \A e \in CacheEvents : ~Has(r.trace, e)
              /\ r.pc \notin {"redis_get", "redis_set"}
              /\ Len(r.trace) >= 1 /\ r.trace[1] = "handler"
              /\ (/\ r.body.method.val # "clear_context"
                  /\ \/ r.pc \in {"provider", "backoff"}
                     \/ r.resp.kind = "result"
                     \/ r.resp.code = -32000) => r.provider >= 1
    /\ \A k \in DOMAIN memoryCache : memoryCache[k].method.val \notin FreshMethods
    /\ \A k \in DOMAIN redisStore : redisStore[k].method.val \notin FreshMethods

\* The second of two identical generative calls is answered by the provider:
\* the session holds the turns of the first.
C4_Witness ==
    /\ sent.pc = "done"
    /\ sent.body.method = Str("openai_generate")
    /\ sent.resp.kind = "result"
    /\ Len(sent.messages) = 3
    /\ sent.provider >= 1

\* C5: a request that arrives while a live tier-1 entry has answered a request
\* of the same method whose params have the same properties, in any order, is
\* a cache hit: it is answered at once from tier 1.
C5_KeyIgnoresInsertionOrder ==
    \A r \in Live :
        r.equal # {} =>
            /\ r.pc = "done"
            /\ r.trace = <<"t1.get:hit">>
            /\ r.resp.result \in r.equal

T2Outcomes == {"t2.get:hit", "t2.get:miss", "t2.get:error", "t2.get:unparsable"}

\* The steps of a cacheable request come in the dispatcher's order.
InOrder(r) ==
    LET tr == r.trace
        n == Len(tr)
    IN  /\ n >= 1
        /\ tr[1] \in {"t1.get:hit", "t1.get:miss"}
        /\ \A j \in 2..n : tr[j] \notin {"t1.get:hit", "t1.get:miss"}
        /\ tr[1] = "t1.get:hit" =>
              /\ n = 1
              /\ r.pc = "done"
              /\ r.resp.kind = "result"
        /\ tr[1] = "t1.get:miss" =>
              IF redisClient /\ n >= 2 /\ tr[2] = "isReady:true"
              THEN /\ n >= 3
                   /\ tr[3] = "t2.get"
                   /\ n = 3 <=> r.pc = "redis_get"
                   /\ n >= 4 =>
                         /\ tr[4] \in T2Outcomes
                         /\ tr[4] = "t2.get:hit" => ~Has(tr, "handler") /\ r.pc = "done"
                         /\ tr[4] # "t2.get:hit" => n >= 5 /\ tr[5] = "handler"
                   /\ \A j \in 1..n : tr[j] = "handler" => j = 5
              ELSE /\ \A e \in {"t2.get"} \cup T2Outcomes : ~Has(tr, e)
                   /\ redisClient => n >= 2 /\ tr[2] = "isReady:false"
                   /\ LET h == IF redisClient THEN 3 ELSE 2
                      IN  /\ n >= h
                          /\ \A j \in 1..n : tr[j] = "handler" <=> j = h
        /\ \A j \in 1..n : tr[j] = "t2.get" => j = 3

\* C6: a cacheable request first looks into tier 1; a hit answers it at once,
\* with nothing after it; Redis is asked only after a tier-1 miss and only
\* when the client exists and was read ready; the handler is called only
\* after the miss in tier 1 and, where Redis was asked, after its miss (or
\* its failure), and never after a hit in either tier.
C6_LookupOrder == \A r \in Live : Cacheable(r) => InOrder(r)

\* A request goes through all three: tier 1, Redis, the handler.
C6_Witness ==
    /\ sent.pc = "done"
    /\ Len(sent.trace) >= 5
    /\ SubSeq(sent.trace, 1, 5)
         = <<"t1.get:miss", "isReady:true", "t2.get", "t2.get:miss", "handler">>
    /\ sent.resp.kind = "result"

\* C7: a request answered from Redis has missed tier 1, has not run the
\* handler nor called Vybe, has not written to Redis, is answered with the
\* value parsed from what Redis held, and leaves that value in tier 1 under
\* its key with a full TTL; a request that arrives while that entry is alive
\* is answered from tier 1 with the same result.
C7_Tier2HitPromoted ==
    /\ (sent.pc = "done" /\ Has(sent.trace, "t2.get:hit")) =>
          /\ sent.trace = <<"t1.get:miss", "isReady:true", "t2.get", "t2.get:hit", "t1.set">>
          /\ sent.upstream = 0
          /\ sent.reply.kind = "text"
          /\ JSONparse(sent.reply.text).ok
          /\ sent.resp = ResultResp(JSONparse(sent.reply.text).v, sent.body.id)
          /\ KeyOf(sent) \in DOMAIN memoryCache
          /\ memoryCache[KeyOf(sent)].v = sent.resp.result
          /\ memoryCache[KeyOf(sent)].life = StdTTL
    /\ \A r \in Live :
          r.prev.src = "tier2" =>
              /\ r.pc = "done"
              /\ r.trace = <<"t1.get:hit">>
              /\ r.resp = ResultResp(r.prev.result, r.body.id)

\* The request after a tier-2 hit is answered from tier 1.
C7_Witness ==
    /\ sent.pc = "done"
    /\ sent.prev.src = "tier2"
    /\ sent.trace = <<"t1.get:hit">>
    /\ sent.resp.result = sent.prev.result

\* The method name contains "_overview", "_details" or "_holders".
InTier2Subset(method) ==
    Includes(method, "_overview") \/ Includes(method, "_details") \/ Includes(method, "_holders")

\* C8: a cacheable request whose handler has returned a result has written it
\* to tier 1 (and tier 1 holds it, with a full TTL, when the response follows
\* at once); a write to Redis is made only for a method of the subset, after
\* the write to tier 1 of the same request, and with an expiry of 300 s,
\* longer than the 120 s of tier 1; every entry of Redis belongs to the subset
\* and holds the value its request wrote to tier 1.
C8_PopulationPolicy ==
    /\ StdTTL = 120 /\ RedisEX = 300 /\ RedisEX > StdTTL
    /\ \A r \in Live :
          Cacheable(r) =>
              /\ (/\ Has(r.trace, "handler")
                  /\ r.pc = "redis_set" \/ (r.pc = "done" /\ r.resp.kind = "result"))
                   => After(r.trace, "handler", "t1.get:miss") /\ After(r.trace, "t1.set", "handler")
                      /\ Has(r.trace, "t1.set")
              /\ Has(r.trace, "t2.set") =>
                    /\ InTier2Subset(r.body.method.val)
                    /\ After(r.trace, "t2.set", "t1.set")
                    /\ Has(r.trace, "isReady:true")
    /\ (/\ sent.pc = "done" /\ Cacheable(sent) /\ sent.resp.kind = "result"
        /\ Has(sent.trace, "handler") /\ ~Has(sent.trace, "t2.set")) =>
          /\ KeyOf(sent) \in DOMAIN memoryCache
          /\ memoryCache[KeyOf(sent)].v = sent.resp.result
          /\ memoryCache[KeyOf(sent)].life = StdTTL
    /\ (sent.pc = "done" /\ Has(sent.trace, "t2.set:ok")) =>
          /\ KeyOf(sent) \in DOMAIN redisStore
          /\ redisStore[KeyOf(sent)].life = RedisEX
          /\ redisStore[KeyOf(sent)].orig = sent.result
    /\ \A k \in DOMAIN redisStore :
          /\ InTier2Subset(redisStore[k].method.val)
          /\ redisStore[k].life <= RedisEX

\* One request has written its result to both tiers.
C8_Witness ==
    /\ sent.pc = "done"
    /\ Has(sent.trace, "t2.set:ok")
    /\ Has(sent.trace, "t1.set")
    /\ KeyOf(sent) \in DOMAIN redisStore
    /\ redisStore[KeyOf(sent)].life = RedisEX

\* C9: Redis never fails a request nor changes its response.  A request fails
\* only when a Vybe call has failed; after a failed or unparsable read from
\* Redis the handler runs; after a failed write to Redis the response is the
\* handler's result and tier 1 has been written; whenever the handler has
\* run, a result that is returned is the handler's; and without a client no
\* request has anything to do with Redis.
C9_Tier2FailuresAbsorbed ==
    /\ \A r \in Live :
          Cacheable(r) =>
              /\ (Has(r.trace, "t2.get:error") \/ Has(r.trace, "t2.get:unparsable")) =>
                    Has(r.trace, "handler")
              /\ ~redisClient =>
                    /\ \A e \in CacheEvents \ {"t1.get:hit", "t1.get:miss", "t1.set"} :
                          ~Has(r.trace, e)
                    /\ r.pc \notin {"redis_get", "redis_set"}
    /\ (sent.pc = "done" /\ Cacheable(sent)) =>
          /\ sent.resp.kind = "error" =>
                Has(sent.trace, "vybe:fail") /\ sent.resp.code = -32000
          /\ (sent.resp.kind = "result" /\ Has(sent.trace, "handler")) =>
                sent.resp.result = sent.result /\ Has(sent.trace, "t1.set")
          /\ Has(sent.trace, "t2.set:error") => sent.resp.kind = "result"
    /\ ~redisClient => redisStore = Empty

\* A request whose read from Redis and whose write to Redis both failed is
\* answered with its handler's result.
C9_Witness ==
    /\ sent.pc = "done"
    /\ Has(sent.trace, "t2.get:unparsable") \/ Has(sent.trace, "t2.get:error")
    /\ Has(sent.trace, "t2.set:error")
    /\ sent.resp.kind = "result"
    /\ sent.resp.result = sent.result

\* C10: what Redis holds parses back to the value that was written to tier 1
\* with it, and a request answered from Redis gets the value the handler had
\* produced.
C10_SerializeParseIdentity ==
    /\ \A k \in DOMAIN redisStore :
          /\ JSONparse(redisStore[k].text).ok
          /\ JSONparse(redisStore[k].text).v = redisStore[k].orig
    /\ (sent.pc = "done" /\ Has(sent.trace, "t2.get:hit")) =>
          /\ sent.reply.orig # Undefined
          /\ sent.resp.result = sent.reply.orig

\* A request is answered from Redis with the result a handler produced.
C10_Witness ==
    /\ sent.pc = "done"
    /\ Has(sent.trace, "t2.get:hit")
    /\ sent.resp.result = TextResult(ComposeText("solana_token_details", ParamsM, <<"d2">>))

\* C11: a request whose handler (or the dispatcher's own code) has thrown is
\* answered with an error whose code is the failure's code when it has one and
\* -32603 when it has none, whose message is the failure's, and whose id is
\* the request's; the error object the caller reads has the keys code and
\* message and no other.
C11_FailuresMappedToWireErrors ==
    (sent.pc = "done" /\ sent.thrown.message # "") =>
        /\ sent.resp.kind = "error"
        /\ sent.resp.code = (IF sent.thrown.code # Undefined THEN sent.thrown.code.val ELSE -32603)
        /\ sent.resp.message = sent.thrown.message
        /\ sent.resp.id = sent.body.id
        /\ LET error == Get(WireRead(sent.resp), "error")
           IN  /\ error.kind = "object"
               /\ {error.val[i].key : i \in 1..Len(error.val)} = {"code", "message"}
        /\ Get(WireRead(sent.resp), "id") = sent.body.id

\* A failure without a code (params absent: the handler's destructuring
\* throws a TypeError) is answered with -32603.
C11_Witness ==
    /\ sent.pc = "done"
    /\ sent.body.params = Undefined
    /\ Has(sent.trace, "handler")
    /\ sent.thrown.code = Undefined
    /\ sent.resp.code = -32603

\* The failures with a code of their own are answered with it.
C11_WitnessOwnCode ==
    /\ sent.pc = "done"
    /\ sent.thrown.code = Num(-32000)
    /\ sent.resp.code = -32000

\* C13: a request with jsonrpc "2.0", a method and an id, whatever the id, is
\* not answered with -32600, and its response carries its id.
C13_AnyIdAccepted ==
    (/\ sent.pc = "done"
     /\ sent.body.jsonrpc = Str("2.0")
     /\ sent.body.method # Undefined
     /\ sent.body.id # Undefined) =>
        /\ sent.resp.code # -32600
        /\ sent.resp.id = sent.body.id

\* A JSON-RPC response: jsonrpc "2.0" and exactly one of result and
\* error { code, message }.
WellFormed(w) ==
    /\ w.kind = "object"
    /\ Get(w, "jsonrpc") = Str("2.0")
    /\ (Get(w, "result") # Undefined) # (Get(w, "error") # Undefined)
    /\ Get(w, "error") # Undefined =>
          /\ Get(Get(w, "error"), "code").kind = "number"
          /\ Get(Get(w, "error"), "message").kind = "string"

\* C12: where every awaited call returns and every timer fires, a request
\* that is waiting is answered (it leaves its slot with its response, the only
\* one it gets), and every response that is sent, on whatever path, reads as
\* a well-formed JSON-RPC response.
C12_EveryRequestAnswered ==
    /\ \A s \in Slots : (reqs[s].pc # "idle") ~> (reqs[s].pc = "idle")
    /\ [](sent.pc = "done" => WellFormed(WireRead(sent.resp)))

\* A request that waited for Redis, for Vybe and for Redis again is answered
\* with a result.
C12_Witness ==
    /\ sent.pc = "done"
    /\ Has(sent.trace, "t2.get:miss")
    /\ Has(sent.trace, "t2.set:ok")
    /\ Get(WireRead(sent.resp), "result") = sent.result

(***************************************************************************)
(* The retry loop of the generative handlers.                              *)
(***************************************************************************)
\* The request is a generative call that has reached its provider.
Calling(r) ==
    /\ r.body.method \in {Str("openai_generate"), Str("anthropic_generate")}
    /\ r.provider > 0

\* The provider answered attempt i with a failure of status 429 or of a
\* status of at least 500.
FailedRetryably(r, i) ==
    /\ ~r.outs[i].ok
    /\ r.outs[i].status.kind = "number"
    /\ (r.outs[i].status.val = 429 \/ r.outs[i].status.val >= 500)

\* The requests in flight, and the one just answered.
Requests == {reqs[s] : s \in Slots} \cup {sent}

\* C14: a generative call makes at most 3 provider attempts; an attempt other
\* than the first follows a failure of status 429 or >= 500 and is made only
\* while fewer than 3 attempts have been made; any other failure, and a
\* success, end the call with that attempt.
C14_AtMostThreeAttempts ==
    \A r \in Requests :
        Calling(r) =>
            /\ r.provider <= 3
            /\ \A i \in 1..(r.provider - 1) : FailedRetryably(r, i)
            /\ r.pc = "provider" => Len(r.outs) = r.provider - 1
            /\ r.pc = "backoff" =>
                  /\ Len(r.outs) = r.provider
                  /\ r.provider < 3
                  /\ FailedRetryably(r, r.provider)
            /\ r.pc = "done" =>
                  /\ Len(r.outs) = r.provider
                  /\ r.outs[r.provider].ok <=> r.resp.kind = "result"
                  /\ r.outs[r.provider].ok \/ r.provider = 3 \/ ~FailedRetryably(r, r.provider)

\* Three attempts were answered 429 and the call has failed.
C14_Witness ==
    /\ sent.pc = "done"
    /\ Calling(sent)
    /\ sent.provider = 3
    /\ \A i \in 1..3 : Len(sent.outs) = 3 /\ sent.outs[i].status = Num(429)
    /\ sent.resp.kind = "error"

\* A failure without a status ended a call at its first attempt.
C14_WitnessTerminal ==
    /\ sent.pc = "done"
    /\ Calling(sent)
    /\ sent.provider = 1
    /\ sent.outs = <<ProviderError(Undefined, "connection reset")>>
    /\ sent.resp.kind = "error"

\* C15: the delay before retry n (n = 1, 2) of a generative call is 2^n
\* seconds, 2 s and then 4 s; the call waits once per retry, and not after
\* its last attempt or after a failure that is not retried.
C15_BackoffDelays ==
    \A r \in Requests :
        Calling(r) =>
            /\ \A n \in 1..Len(r.waits) : r.waits[n] = (2 ^ n) * 1000
            /\ Len(r.waits) <= 2
            /\ r.pc = "backoff" => Len(r.waits) = Len(r.outs)
            /\ r.pc \in {"provider", "done"} => Len(r.waits) = r.provider - 1

\* A call that failed three times waited 2 s and 4 s, and not after the third
\* failure.
C15_Witness ==
    /\ sent.pc = "done"
    /\ Calling(sent)
    /\ Len(sent.outs) = 3
    /\ ~sent.outs[3].ok
    /\ sent.waits = <<2000, 4000>>

\* C16: a generative call that ends in failure answers with the last error
\* of its provider, its message after "OpenAI error: " or "Anthropic error: ",
\* and with code -32000.
C16_LastErrorWrapped ==
    (sent.pc = "done" /\ Calling(sent) /\ ~sent.outs[Len(sent.outs)].ok) =>
        /\ sent.resp.kind = "error"
        /\ sent.resp.code = -32000
        /\ sent.resp.message =
              (IF sent.body.method = Str("openai_generate") THEN "OpenAI error: "
               ELSE "Anthropic error: ") \o sent.outs[Len(sent.outs)].text

\* An Anthropic call was answered 429, 429 and then 500: the caller is told
\* of the last.
C16_Witness ==
    /\ sent.pc = "done"
    /\ sent.body.method = Str("anthropic_generate")
    /\ Len(sent.outs) = 3
    /\ sent.outs[1].status = Num(429)
    /\ sent.outs[3].status = Num(500)
    /\ sent.resp.message = "Anthropic error: server error"

(***************************************************************************)
(* The session store.                                                      *)
(***************************************************************************)
\* C17: the list written back for a turn list of more than 10 turns is its
\* element 0 followed by its last 9 elements in their order, 10 turns in all;
\* a list of at most 10 turns is written back unchanged; of 11 turns, turn 1
\* is the one dropped.
C17_TruncationKeepsFirstAndLastNine ==
    \A s \in Slots :
        reqs[s].pc = "stored" =>
            LET u == reqs[s].messages
                t == contextStore[SessionOf(reqs[s].body)]
            IN  /\ Len(u) <= 10 => t = u
                /\ Len(u) > 10 =>
                      /\ Len(t) = 10
                      /\ t[1] = u[1]
                      /\ \A j \in 1..9 : t[1 + j] = u[Len(u) - 9 + j]
                /\ Len(u) = 11 =>
                      /\ \A i \in 1..10 : t[i] # u[2]
                      /\ \A j \in 3..11 : t[j - 1] = u[j]

\* A list of 11 turns was stored without its second turn.
C17_Witness ==
    /\ reqs["r1"].pc = "stored"
    /\ Len(reqs["r1"].messages) = 11
    /\ Len(contextStore[Str("s")]) = 10
    /\ contextStore[Str("s")][2] = reqs["r1"].messages[3]

\* C18: whatever calls of openai_generate, anthropic_generate and
\* clear_context have run, and however they interleaved, every session in the
\* store has at most 10 turns.
C18_SessionsAtMostTenTurns ==
    \A sid \in DOMAIN contextStore : Len(contextStore[sid]) <= 10

\* A call that read 10 turns, with another call in flight on the session,
\* has written the session back.
C18_Witness ==
    /\ sent.pc = "done"
    /\ Has(sent.trace, "ctx.set")
    /\ Len(sent.messages) = 11
    /\ \E s \in Slots : reqs[s].pc \in {"provider", "backoff"}
    /\ Len(contextStore[Str("s")]) = 10

\* C19: while the generative calls on a session do not overlap and the
\* session is not cleared, the first stored turn is the user turn of the
\* session's first successful call, and the stored turns after it are the
\* most recent turns of the session, in order.
C19_AnchorAndMostRecent ==
    \A sid \in DOMAIN contextStore :
        /\ sid \in DOMAIN history
        /\ history[sid].clean =>
              LET h == history[sid].turns
                  t == contextStore[sid]
              IN  /\ Len(h) >= 2
                  /\ h[1].role = "user"
                  /\ t[1] = h[1]
                  /\ Len(t) = (IF Len(h) <= 10 THEN Len(h) ELSE 10)
                  /\ \A j \in 2..Len(t) : t[j] = h[Len(h) - Len(t) + j]

\* A session of 8 successful calls, none overlapping: its first turn is
\* still in the store, before the turns of the last calls.
C19_Witness ==
    /\ Str("s") \in DOMAIN contextStore
    /\ Str("s") \in DOMAIN history
    /\ history[Str("s")].clean
    /\ Len(history[Str("s")].turns) = 16
    /\ contextStore[Str("s")][1] = Turn("user", "q1")
    /\ contextStore[Str("s")][2] = history[Str("s")].turns[8]
    /\ sent.pc = "done"
    /\ Has(sent.trace, "ctx.set")

\* Element 0 and the last 9 elements of a list of more than 10.
Kept(u) ==
    IF Len(u) > 10 THEN [i \in 1..10 |-> IF i = 1 THEN u[1] ELSE u[Len(u) - 10 + i]] ELSE u

\* The step answers a generative call.
AnswersCall ==
    /\ sent'.pc = "done"
    /\ sent'.body.method \in {Str("openai_generate"), Str("anthropic_generate")}

\* C20: a generative call writes the session store only in the step after a
\* successful provider response, and writes the truncation of the turns the
\* session held when the call began, the call's user turn and the assistant
\* turn; no other step of a generative call, and no call that fails, changes
\* the store.
C20_StoreWrittenOnlyOnSuccess ==
    [][ /\ (AnswersCall /\ sent'.resp.kind = "result") =>
              /\ sent'.outs[Len(sent'.outs)].ok
              /\ contextStore' =
                    With(contextStore, SessionOf(sent'.body),
                         Kept(sent'.prior
                              \o << Turn("user", Get(sent'.body.params, "prompt").val),
                                    Turn("assistant", sent'.outs[Len(sent'.outs)].text) >>))
        /\ (AnswersCall /\ sent'.resp.kind = "error") => contextStore' = contextStore
        /\ contextStore' # contextStore =>
              /\ sent'.pc = "done"
              /\ sent'.resp.kind = "result"
              /\ sent'.body.method \in {Str("openai_generate"), Str("anthropic_generate"),
                                         Str("clear_context")} ]_vars

\* A call on a session of 10 turns succeeded at its third attempt and the
\* session was written back; a call failed and the session kept its turns.
C20_Witness ==
    /\ sent.pc = "done"
    /\ sent.resp.kind = "result"
    /\ Len(sent.prior) = 10
    /\ Len(sent.outs) = 3
    /\ contextStore[Str("s")][10] = Turn("assistant", "r1")
    /\ contextStore[Str("s")][9] = Turn("user", Get(sent.body.params, "prompt").val)

C20_WitnessFailure ==
    /\ sent.pc = "done"
    /\ sent.resp.kind = "error"
    /\ Len(sent.outs) = 3
    /\ Str("s") \in DOMAIN contextStore
    /\ contextStore[Str("s")] = sent.prior

\* The step answers a clear_context call.
AnswersClear == sent'.pc = "done" /\ sent'.body.method = Str("clear_context")

C21_WitnessAbsent ==
    /\ sent.pc = "done"
    /\ sent.body.method = Str("clear_context")
    /\ SessionOf(sent.body) = Str("s")
    /\ sent.resp.kind = "result"
    /\ Len(sent.prior) = 0
    /\ started = 2

\* A turn as the handlers build it.
IsTurn(t) ==
    /\ DOMAIN t = {"role", "content"}
    /\ t.role \in {"user", "assistant"}

\* C22: with generative calls and clears on one session interleaved in every
\* way, no call fails but for its provider's failure, and what the store
\* holds for a session is always a list of turns: the truncation of the
\* turns some call read when it began followed by that call's user turn and
\* assistant turn.
C22_RaceLosesUpdatesOnly ==
    /\ \A sid \in DOMAIN contextStore :
          /\ sid \in DOMAIN history
          /\ \A i \in 1..Len(contextStore[sid]) : IsTurn(contextStore[sid][i])
          /\ LET w == history[sid].writer
             IN  /\ w.user.role = "user"
                 /\ w.assistant.role = "assistant"
                 /\ contextStore[sid] = Kept(w.snapshot \o <<w.user, w.assistant>>)
    /\ (sent.pc = "done" /\ Calling(sent)) =>
          /\ sent.resp.kind = "error" => ~sent.outs[Len(sent.outs)].ok
          /\ sent.resp.kind = "result" =>
                sent.resp.result =
                    Obj(<<Prop("content",
                               Arr(<<Obj(<<Prop("type", Str("text")),
                                           Prop("text", Str(sent.outs[Len(sent.outs)].text))>>)>>))>>)

\* Two calls on an empty session overlapped and both succeeded: the store
\* holds the turns of the second alone.
C22_Witness ==
    /\ Str("s") \in DOMAIN contextStore
    /\ Str("s") \in DOMAIN history
    /\ ~history[Str("s")].clean
    /\ Len(history[Str("s")].turns) = 4
    /\ Len(contextStore[Str("s")]) = 2
    /\ sent.pc = "done"
    /\ Has(sent.trace, "ctx.set")

\* C28: openai_generate called with model, a messages list, max_tokens and
\* session_id, and no prompt, is accepted: it reaches the provider, and when
\* the provider answers, the result's content[0].text is the generated text.
C28_AgentCallAccepted ==
    ( /\ sent.pc = "done"
      /\ sent.body.method = Str("openai_generate")
      /\ Get(sent.body.params, "messages").kind = "array"
      /\ Get(sent.body.params, "prompt") = Undefined ) =>
        /\ sent.resp.code # -32602
        /\ Calling(sent)
        /\ sent.outs[Len(sent.outs)].ok =>
              sent.resp.result = TextResult(sent.outs[Len(sent.outs)].text)

\* C29: a request whose x-api-key is absent or is not the configured key is
\* answered Unauthorized (code -32000, id null) and nothing else happens for
\* it: no validation, no cache access, no handler, no upstream call, no
\* change of the session store; a request is answered so for no other
\* reason.
C29_UnauthorizedStopsAtMiddleware ==
    [][ /\ ( /\ sent'.pc = "done"
              /\ (sent'.apiKey \in {Undefined, Str("")} \/ sent'.apiKey # Str("k")) ) =>
                /\ sent'.resp.kind = "error"
                /\ sent'.resp.code = -32000
                /\ sent'.resp.message = "Unauthorized"
                /\ sent'.resp.id = Null
                /\ sent'.trace = <<>>
                /\ sent'.upstream = 0
                /\ sent'.provider = 0
                /\ UNCHANGED <<reqs, memoryCache, redisStore, contextStore>>
        /\ \A s \in Slots :
              reqs'[s].pc # "idle" => reqs'[s].apiKey = Str("k")
        /\ (sent'.pc = "done" /\ sent'.apiKey = Str("k")) =>
              sent'.resp.message # "Unauthorized" ]_vars

\* A request with another key asked to clear a session that is in the
\* store: it was answered Unauthorized and the session is still there.
C29_Witness ==
    /\ sent.pc = "done"
    /\ sent.apiKey = Str("wrong")
    /\ sent.body.method = Str("clear_context")
    /\ sent.resp.message = "Unauthorized"
    /\ Str("s") \in DOMAIN contextStore

\* The request a step has run, as the step leaves it; the events the step
\* has added to its trace; what tier 1 holds.
Acting ==
    IF sent'.pc = "done" THEN sent'
    ELSE reqs'[CHOOSE s \in Slots : reqs'[s] # reqs[s]]

NewEvents ==
    LET before == IF \E s \in Slots : reqs[s].pc # "idle" /\ reqs'[s] # reqs[s]
                  THEN reqs[CHOOSE s \in Slots : reqs[s].pc # "idle" /\ reqs'[s] # reqs[s]].trace
                  ELSE <<>>
    IN  SubSeq(Acting.trace, Len(before) + 1, Len(Acting.trace))

T1Content(mc) == [k \in DOMAIN mc |-> mc[k].v]

SessionMethods ==
    {Str("openai_generate"), Str("anthropic_generate"), Str("clear_context")}

\* C30: the session store changes only in a step of openai_generate,
\* anthropic_generate or clear_context, and never in a step that answers with
\* an error or from a cache; tier 1 and tier 2 change only in the dispatcher's
\* population steps (tier 1 at a set after the handler's result or after a
\* tier-2 hit, tier 2 when its set has succeeded), never while a handler is
\* waiting for its upstream or provider call, and never in a step of a
\* generative or clear request.
C30_OwnershipOfSharedState ==
    [][ /\ contextStore' # contextStore =>
              /\ Acting.body.method \in SessionMethods
              /\ Acting.pc = "done" /\ Acting.resp.kind = "result"
              /\ Has(NewEvents, "ctx.set") \/ Has(NewEvents, "ctx.delete")
              /\ ~Has(Acting.trace, "t1.get:hit") /\ ~Has(Acting.trace, "t2.get:hit")
        /\ T1Content(memoryCache') # T1Content(memoryCache) =>
              /\ Has(NewEvents, "t1.set")
              /\ Acting.body.method \notin SessionMethods
        /\ redisStore' # redisStore =>
              /\ Has(NewEvents, "t2.set:ok")
              /\ Acting.body.method \notin SessionMethods
        /\ Acting.pc \in {"upstream", "provider", "backoff"} =>
              /\ T1Content(memoryCache') = T1Content(memoryCache)
              /\ redisStore' = redisStore
              /\ contextStore' = contextStore ]_vars

\* A cached method has filled both tiers while a session is in the store, and
\* the session is as it was.
C30_Witness ==
    /\ sent.pc = "done"
    /\ sent.body.method = Str("solana_token_details")
    /\ Has(sent.trace, "t1.set") /\ Has(sent.trace, "t2.set:ok")
    /\ DOMAIN redisStore # {} /\ DOMAIN memoryCache # {}
    /\ Str("s") \in DOMAIN contextStore

\* A generative call has written the session store with both tiers empty.
C30_WitnessSession ==
    /\ sent.pc = "done"
    /\ sent.body.method = Str("anthropic_generate")
    /\ Has(sent.trace, "ctx.set")
    /\ DOMAIN redisStore = {} /\ DOMAIN memoryCache = {}

\* C23: solana_wallet_overview (two concurrent calls) and
\* solana_program_metrics (three) are all-or-nothing.  When one call fails,
\* whichever calls have returned before it, the request is answered with one
\* error of code -32000 carrying the method's prefix, never with a result,
\* and the step writes neither cache tier; a result is composed only from a
\* payload of every call.
C23_CompositeAllOrNothing ==
    [][ (sent'.pc = "done" /\ sent'.body \in MultiBodies /\ Has(sent'.trace, "handler")) =>
          LET method == sent'.body.method.val
              calls == HandlerTable[method].stages[1]
          IN  /\ Len(calls) = (IF method = "solana_wallet_overview" THEN 2 ELSE 3)
              /\ sent'.upstream = Len(calls)
              /\ \A i \in 1..Len(calls) : Has(sent'.trace, "vybe." \o calls[i])
              /\ Has(sent'.trace, "vybe:fail") =>
                    /\ sent'.resp.kind = "error"
                    /\ sent'.resp.code = -32000
                    /\ sent'.resp.message =
                          (IF method = "solana_wallet_overview"
                           THEN "Error fetching Solana data: "
                           ELSE "Error fetching program metrics: ")
                          \o "Vybe API request failed"
                    /\ \A e \in {"t1.set", "t2.set", "t2.set:ok"} : ~Has(sent'.trace, e)
                    /\ T1Content(memoryCache') = T1Content(memoryCache)
                    /\ redisStore' = redisStore
              /\ sent'.resp.kind = "result" =>
                    /\ ~Has(sent'.trace, "vybe:fail")
                    /\ Len(sent'.got) = Len(calls)
                    /\ \A i \in 1..Len(calls) : sent'.got[i] \in Payloads
                    /\ sent'.resp.result =
                          TextResult(ComposeText(method, sent'.body.params, sent'.got)) ]_vars

\* The wallet overview whose token call has returned and whose NFT call has
\* failed: an error, and no entry in either tier.
C23_Witness ==
    /\ sent.pc = "done"
    /\ sent.body.method = Str("solana_wallet_overview")
    /\ sent.got = <<"d1", "pending">>
    /\ Has(sent.trace, "vybe:fail")
    /\ sent.resp.kind = "error"
    /\ DOMAIN memoryCache = {} /\ DOMAIN redisStore = {}

\* The program metrics whose third call fails after two have returned.
C23_WitnessMetrics ==
    /\ sent.pc = "done"
    /\ sent.body.method = Str("solana_program_metrics")
    /\ sent.got = <<"d1", "d1", "pending">>
    /\ sent.resp.kind = "error"

\* A wallet overview composed from both payloads.
C23_WitnessResult ==
    /\ sent.pc = "done"
    /\ sent.body.method = Str("solana_wallet_overview")
    /\ sent.resp.kind = "result"
    /\ sent.got = <<"d1", "d1">>

\* The parameters a handler tests before its try block (lines 274-283,
\* 343-352, 416-420, and the first lines of each analytics handler).
RequiredOf(method) ==
    IF method \in {"openai_generate", "anthropic_generate"} THEN {"prompt", "session_id"}
    ELSE IF method = "clear_context" THEN {"session_id"}
    ELSE IF method \in DOMAIN HandlerTable /\ HandlerTable[method].required # ""
    THEN {HandlerTable[method].required}
    ELSE {}

\* The parameter names that occur in a message of the handlers' checks.
NamedIn(message) ==
    IF message = "Wallet address is required" THEN {"address"}
    ELSE IF message = "session_id is required" THEN {"session_id"}
    ELSE {}

\* C27: a request with a valid envelope that omits a parameter its handler
\* requires is answered with code -32602 and a message that contains the name
\* of an omitted parameter, with no upstream call, no provider call and no
\* access to the session store.
C27_MissingParameterRejected ==
    ( /\ sent.pc = "done"
      /\ Passed(sent.body)
      /\ \E p \in RequiredOf(sent.body.method.val) : Get(sent.body.params, p) = Undefined ) =>
        /\ sent.resp.kind = "error"
        /\ sent.resp.code = -32602
        /\ \E p \in RequiredOf(sent.body.method.val) :
              Get(sent.body.params, p) = Undefined /\ p \in NamedIn(sent.resp.message)
        /\ sent.upstream = 0
        /\ sent.provider = 0
        /\ \A e \in {"ctx.get", "ctx.set", "ctx.delete"} : ~Has(sent.trace, e)

\* A section that says no data is available.
IsPlaceholder(section) ==
    section \in {"\nNo program data available", "\nNo token data available",
                 "No data available", "No network data available"}

\* C26: when the Vybe calls of solana_market_sentiment and
\* solana_network_activity return, with or without data, the request is
\* answered with a result; each section whose call returned no data is a
\* "no data available" placeholder, and a section whose call returned data
\* reads as it does when every call returns data.
C26_MissingDataDegradesToPlaceholder ==
    ( /\ sent.pc = "done"
      /\ sent.body \in SummaryBodies
      /\ Has(sent.trace, "handler")
      /\ ~Has(sent.trace, "vybe:fail") ) =>
        /\ sent.resp.kind = "result"
        /\ \E programs \in {"d1", NoData}, tokens \in {"d1", NoData} :
              IF sent.body.method = Str("solana_market_sentiment")
              THEN /\ sent.got = <<programs, tokens>>
                   /\ sent.resp.result = TextResult(SentimentText(programs, tokens))
                   /\ programs = NoData => IsPlaceholder(ProgramsData(programs))
                   /\ tokens = NoData => IsPlaceholder(TokensData(tokens))
                   /\ programs # NoData => ProgramsData(programs) = "\n1. d1: active users"
                   /\ tokens # NoData => TokensData(tokens) = "\n1. d1: price"
              ELSE /\ sent.got = <<programs>>
                   /\ sent.resp.result = TextResult(NetworkText(programs))
                   /\ programs = NoData => IsPlaceholder(ActivityTotals(programs))

\* C25: the merge lists exactly the tokens that more than one address
\* holds, as many as there are and at most 10, each once, with its holders
\* (their number, and for each the amount and USD value its wallet reports,
\* 0 when the value is missing), in the order of the number of holders
\* descending, the tokens cut off having no more holders than those listed.
\* For A = {mintX: 10, mintY: 5} and B = {mintX: 3} it lists mintX with the
\* two holders A and B and does not list mintY.
C25_MergeListsCommonTokens ==
    \A s \in Slots : reqs[s].pc = "merged" =>
        LET addresses == AddressesOf(reqs[s].body.params)
            results == reqs[s].got
            out == reqs[s].result
            Wallets == {w \in 1..Len(addresses) : results[w].hasData}
            Reports(w, m) == {j \in 1..Len(results[w].data) : results[w].data[j].mintAddress = m}
            HeldBy(m) == {addresses[w] : w \in {x \in Wallets : Reports(x, m) # {}}}
            Mints == UNION {{results[w].data[j].mintAddress : j \in 1..Len(results[w].data)} :
                            w \in Wallets}
            Common == {m \in Mints : Cardinality(HeldBy(m)) > 1}
        IN  /\ Len(out) = (IF Cardinality(Common) > 10 THEN 10 ELSE Cardinality(Common))
            /\ \A i \in 1..Len(out) : out[i].mint \in Common
            /\ \A i, j \in 1..Len(out) : i # j => out[i].mint # out[j].mint
            /\ \A i \in 1..Len(out) :
                  /\ {out[i].holders[k].address : k \in 1..Len(out[i].holders)} = HeldBy(out[i].mint)
                  /\ Len(out[i].holders) = Cardinality(HeldBy(out[i].mint))
                  /\ \A k \in 1..Len(out[i].holders) :
                        \E w \in Wallets : \E j \in Reports(w, out[i].mint) :
                            /\ addresses[w] = out[i].holders[k].address
                            /\ out[i].holders[k].amount = results[w].data[j].amount
                            /\ out[i].holders[k].usdValue =
                                  (IF results[w].data[j].valueUsd = NoValue THEN 0
                                   ELSE results[w].data[j].valueUsd)
            /\ \A i, j \in 1..Len(out) : i < j => Len(out[i].holders) >= Len(out[j].holders)
            /\ \A m \in Common :
                  (\A i \in 1..Len(out) : out[i].mint # m) =>
                      Cardinality(HeldBy(m)) <= Len(out[Len(out)].holders)
            /\ results = ExampleResults =>
                  out = << [mint |-> "mintX", symbol |-> "X",
                            holders |-> << [address |-> "A", amount |-> 10, usdValue |-> 20],
                                           [address |-> "B", amount |-> 3, usdValue |-> 6] >>] >>

\* The example has been merged.
C25_Witness ==
    /\ reqs["r1"].pc = "merged"
    /\ reqs["r1"].got = ExampleResults
    /\ Len(reqs["r1"].result) = 1

\* More than ten tokens are common, some held by three addresses and
\* first seen after tokens held by two: ten are listed, those of three first.
C25_WitnessCut ==
    /\ reqs["r1"].pc = "merged"
    /\ Len(reqs["r1"].got) = 3
    /\ Len(reqs["r1"].result) = 10
    /\ Len(reqs["r1"].result[1].holders) = 3
    /\ Len(reqs["r1"].result[10].holders) = 2
    /\ reqs["r1"].result[1].mint # "m1"

\* C24: solana_cross_analysis answers -32602, with no upstream call, unless
\* addresses is an array of at least one element; otherwise it makes one
\* wallet-token call for each address, answers with an error of code -32000
\* and no result when one of them fails, and composes its result from the
\* answers of all of them.
C24_CrossAnalysisValidatesAndFansOut ==
    (sent.pc = "done" /\ sent.body \in CrossBodies) =>
        LET addresses == Get(sent.body.params, "addresses")
            calls == {i \in 1..Len(sent.trace) : sent.trace[i] = "vybe.getWalletTokens"}
        IN  IF addresses.kind # "array" \/ Len(addresses.val) = 0
            THEN /\ sent.resp.kind = "error"
                 /\ sent.resp.code = -32602
                 /\ sent.resp.message = "An array of addresses is required"
                 /\ sent.upstream = 0
                 /\ calls = {}
            ELSE Has(sent.trace, "handler") =>
                 /\ Cardinality(calls) = Len(addresses.val)
                 /\ Has(sent.trace, "vybe:fail") =>
                       /\ sent.resp.kind = "error"
                       /\ sent.resp.code = -32000
                 /\ sent.resp.kind = "result" =>
                       /\ Len(sent.got) = Len(addresses.val)
                       /\ \A i \in 1..Len(sent.got) : sent.got[i] \in Payloads
                       /\ sent.resp.result =
                             TextResult(CrossText(AddressesOf(sent.body.params),
                                                  [i \in 1..Len(sent.got) |->
                                                     WalletData(sent.got[i])]))
                 /\ sent.resp.kind = "error" =>
                       /\ sent.resp.code = -32000
                       /\ Has(sent.trace, "vybe:fail")

\* The same for the requests that carry a params object: these are answered
\* as C24 says.
C24_HoldsWithParamsObject ==
    sent.body.params.kind = "object" => C24_CrossAnalysisValidatesAndFansOut

\* C39: every session in the store holds an even number of turns, at least
\* two, that are by turns of the user and of the assistant, the first of the
\* user and the last of the assistant.
C39_StoredTurnsAlternate ==
    \A sid \in DOMAIN contextStore :
        LET turns == contextStore[sid]
        IN  /\ Len(turns) > 0
            /\ Len(turns) % 2 = 0
            /\ \A i \in 1..Len(turns) :
                  turns[i].role = (IF i % 2 = 1 THEN "user" ELSE "assistant")

\* A call that read ten turns has stored its truncated list while another
\* call on the session was in flight.
C39_Witness ==
    /\ sent.pc = "done"
    /\ Has(sent.trace, "ctx.set")
    /\ Len(sent.messages) = 11
    /\ Len(contextStore[Str("s")]) = 10
    /\ \E s \in Slots : reqs[s].pc \in {"provider", "backoff"}

\* C40: the message list of a generative call is the turns the store held
\* for its session when the call began, followed by one user turn with its
\* prompt: at most 11 turns; and it is the same list at every attempt of
\* the call, whatever other requests write to or clear from the store.
C40_MessageListFixedAtStart ==
    [][ \A s \in Slots :
          reqs'[s].pc \in {"provider", "backoff"} =>
            /\ reqs'[s].messages =
                  Append(reqs'[s].prior,
                         Turn("user", Get(reqs'[s].body.params, "prompt").val))
            /\ Len(reqs'[s].messages) <= 11
            /\ reqs[s].pc \in {"provider", "backoff"} =>
                  /\ reqs'[s].messages = reqs[s].messages
                  /\ reqs'[s].prior = reqs[s].prior ]_vars

\* A call makes its second attempt with the eleven turns it began with,
\* after another request has changed what the store holds for the session.
C40_Witness ==
    \E s \in Slots :
        /\ reqs[s].pc = "provider"
        /\ reqs[s].provider = 2
        /\ Len(reqs[s].messages) = 11
        /\ Str("s") \in DOMAIN contextStore
        /\ contextStore[Str("s")] # reqs[s].prior

\* The same after a clear of the session.
C40_WitnessCleared ==
    \E s \in Slots :
        /\ reqs[s].pc = "provider"
        /\ reqs[s].provider = 2
        /\ Len(reqs[s].messages) > 1
        /\ Str("s") \notin DOMAIN contextStore

\* C38: a session that clear_context has removed stays out of the store until
\* a generative call that began after the clear succeeds: a step that puts a
\* session into the store is the success of a call that found no turns for
\* the session when it began.
C38_ClearedSessionStaysAbsent ==
    [][ \A sid \in DOMAIN contextStore' :
          sid \notin DOMAIN contextStore =>
            /\ Acting.pc = "done"
            /\ SessionOf(Acting.body) = sid
            /\ Acting.prior = <<>> ]_vars

\* C32: the retry loop of a generative call is ATTEMPT (the provider call is
\* awaited), from which it ends (answered) or goes to BACKOFF (the timer is
\* awaited), from which it goes to ATTEMPT.  It makes at most 3 attempts and
\* at most 2 waits; it is in BACKOFF only after a failure with status 429 or
\* 500 and up, with attempts left; and every call that is in ATTEMPT or in
\* BACKOFF is answered in the end.
C32_RetryLoopTerminates ==
    /\ [] \A s \in Slots :
            /\ reqs[s].provider <= 3
            /\ Len(reqs[s].waits) <= 2
            /\ reqs[s].pc = "provider" =>
                  reqs[s].provider = reqs[s].attempts + 1
            /\ reqs[s].pc = "backoff" =>
                  LET last == reqs[s].outs[Len(reqs[s].outs)]
                  IN  /\ ~last.ok
                      /\ last.status.kind = "number"
                      /\ last.status.val = 429 \/ last.status.val >= 500
                      /\ reqs[s].attempts < 3
                      /\ reqs[s].attempts = reqs[s].provider
    /\ [][ \A s \in Slots :
              /\ reqs[s].pc = "provider" => reqs'[s].pc \in {"provider", "backoff", "idle"}
              /\ reqs[s].pc = "backoff" => reqs'[s].pc \in {"backoff", "provider"}
              /\ (reqs[s].pc = "idle" /\ reqs'[s].pc # "idle") => reqs'[s].pc = "provider"
              /\ (reqs[s].pc = "provider" /\ reqs'[s].pc = "idle") =>
                    /\ sent'.pc = "done"
                    /\ sent'.provider <= 3 /\ Len(sent'.waits) <= 2
                    /\ sent'.resp.kind = "result" <=> sent'.outs[Len(sent'.outs)].ok ]_vars
    /\ \A s \in Slots : (reqs[s].pc \in {"provider", "backoff"}) ~> (reqs[s].pc = "idle")

\* A call has failed after three attempts and two waits.
C32_Witness ==
    /\ sent.pc = "done"
    /\ sent.provider = 3
    /\ Len(sent.waits) = 2
    /\ sent.resp.kind = "error"

\* The other provider family.
OtherFamily(method) ==
    IF method = "openai_generate" THEN "anthropic_generate" ELSE "openai_generate"

\* The handler of a call run on from `e` with the provider outcomes `outs`,
\* one for each attempt, every timer firing.
RECURSIVE Settle(_, _)
Settle(e, outs) ==
    IF e.resp.kind # "none" \/ outs = <<>>
    THEN e
    ELSE LET e1 == AfterProvider(e.r, Head(outs), e.mc, e.ctx, TRUE)
         IN  IF e1.resp.kind = "none"
             THEN Settle(AfterBackoff(e1.r, e1.mc, e1.ctx), Tail(outs))
             ELSE e1

\* The call `r` made to the other provider family: the same parameters and
\* id, the same turns in the store when it arrives, the same outcomes.
Twin(r) ==
    LET sid == SessionOf(r.body)
        ctx0 == IF r.prior = <<>> THEN Empty ELSE With(Empty, sid, r.prior)
        body == [r.body EXCEPT !.method = Str(OtherFamily(r.body.method.val))]
    IN  Settle(Handle([Idle EXCEPT !.pc = "run", !.body = body, !.prior = r.prior],
                      Empty, ctx0, TRUE),
               r.outs)

C31_WitnessFailed ==
    /\ sent.pc = "done"
    /\ sent.body.method = Str("openai_generate")
    /\ sent.resp.kind = "error"
    /\ sent.provider = 3

\* C34: the step that answers a request with an error writes neither tier:
\* tier 1 holds after it no entry it did not hold before, Redis holds what it
\* held, and the request has made no set on either; a request that is
\* answered from a cache is answered with a result; and a request that finds
\* nothing in the caches calls its handler.
C34_FailedRequestPopulatesNoCache ==
    [][ /\ (sent'.pc = "done" /\ sent'.resp.kind = "error") =>
              /\ \A k \in DOMAIN memoryCache' :
                    k \in DOMAIN memoryCache /\ memoryCache'[k] = memoryCache[k]
              /\ redisStore' = redisStore
              /\ ~Has(sent'.trace, "t1.set")
              /\ ~Has(sent'.trace, "t2.set")
        /\ (sent'.pc = "done"
              /\ (Has(sent'.trace, "t1.get:hit") \/ Has(sent'.trace, "t2.get:hit"))) =>
              /\ sent'.resp.kind = "result"
              /\ ~Has(sent'.trace, "handler")
        /\ \A s \in Slots :
              (reqs[s].pc = "idle" /\ reqs'[s].pc # "idle"
                 /\ Has(reqs'[s].trace, "t1.get:miss") /\ ~redisClient) =>
                    Has(reqs'[s].trace, "handler") ]_vars

\* A cacheable request has failed in its handler, with Redis ready, and both
\* tiers are empty.
C34_Witness ==
    /\ sent.pc = "done"
    /\ sent.resp.kind = "error"
    /\ sent.body.method = Str("solana_token_details")
    /\ Has(sent.trace, "isReady:true")
    /\ Has(sent.trace, "handler")
    /\ sent.upstream > 0
    /\ memoryCache = Empty
    /\ redisStore = Empty

\* The same request has been made twice and its handler has failed a second
\* time.
C34_WitnessAgain ==
    /\ C34_Witness
    /\ started = 2
    /\ \A s \in Slots : reqs[s].pc = "idle"

\* What the handler of `method` can return for `params`: its text over every
\* data Vybe can answer its calls with.
HandlerResults(method, params) ==
    LET st == HandlerTable[method].stages
        n == Len(st[1]) + (IF Len(st) > 1 THEN Len(st[2]) ELSE 0)
    IN  { TextResult(ComposeText(method, params, got)) : got \in [1..n -> Payloads] }

\* C35: whatever the interleaving, an entry of tier 1 (and of Redis) is
\* under the key of the method and parameters of the request that wrote it,
\* and its value is a result of the handler of that method for those
\* parameters; a step writes no entry but the one under the key of the
\* request it runs; and a request is answered with a result of its own
\* method and parameters.
C35_CacheEntriesBelongToTheirKey ==
    /\ []  /\ \A k \in DOMAIN memoryCache :
                LET e == memoryCache[k]
                IN  /\ k = CacheKeyText(e.method.val, e.params)
                    /\ e.v \in HandlerResults(e.method.val, e.params)
           /\ \A k \in DOMAIN redisStore :
                LET e == redisStore[k]
                IN  /\ k = CacheKeyText(e.method.val, e.params)
                    /\ e.orig \in HandlerResults(e.method.val, e.params)
    /\ [][  /\ \A k \in DOMAIN memoryCache' :
                (k \notin DOMAIN memoryCache \/ memoryCache'[k].v # memoryCache[k].v
                    \/ memoryCache'[k].owner # memoryCache[k].owner) =>
                    /\ k = CacheKeyText(Acting.body.method.val, Acting.body.params)
                    /\ memoryCache'[k].method = Acting.body.method
                    /\ memoryCache'[k].params = Acting.body.params
            /\ \A k \in DOMAIN redisStore' :
                (k \notin DOMAIN redisStore \/ redisStore'[k].text # redisStore[k].text) =>
                    k = CacheKeyText(Acting.body.method.val, Acting.body.params)
            /\ (sent'.pc = "done" /\ sent'.resp.kind = "result") =>
                    sent'.resp.result \in
                        HandlerResults(sent'.body.method.val, sent'.body.params) ]_vars

\* Two requests of different methods were in flight together, and tier 1
\* holds an entry of each.
C35_Witness ==
    /\ \E k1, k2 \in DOMAIN memoryCache :
          /\ memoryCache[k1].owner = "r1" /\ memoryCache[k2].owner = "r2"
          /\ memoryCache[k1].method # memoryCache[k2].method
    /\ sent.pc = "done"
    /\ Has(sent.trace, "t1.set")

\* C37: a cacheable request that finds no entry calls its handler, whether
\* or not the same request is in flight: a request that arrives while the
\* same request awaits Vybe or Redis, tier 1 holding nothing under their
\* key, goes on to Redis or to its own Vybe call; a request that is answered
\* without a hit in either tier has made its own Vybe call and is answered
\* with the text of the data that call returned; and the step in which a
\* handler's result is put in tier 1 leaves that result under the key,
\* whatever was there.
C37_ConcurrentMissesNotCoalesced ==
    [][ /\ \A s \in Slots :
              (/\ reqs[s].pc = "idle" /\ reqs'[s].pc # "idle"
               /\ \E t \in Slots \ {s} :
                     /\ reqs[t].pc \in {"upstream", "redis_get"}
                     /\ reqs[t].body = reqs'[s].body
               /\ ~T1Live(memoryCache,
                          CacheKeyText(reqs'[s].body.method.val, reqs'[s].body.params))) =>
                    /\ Has(reqs'[s].trace, "t1.get:miss")
                    /\ reqs'[s].pc \in {"upstream", "redis_get"}
                    /\ reqs'[s].pc = "upstream" =>
                          Has(reqs'[s].trace, "handler") /\ reqs'[s].upstream = 1
        /\ (/\ sent'.pc = "done" /\ sent'.resp.kind = "result"
             /\ ~Has(sent'.trace, "t1.get:hit") /\ ~Has(sent'.trace, "t2.get:hit")) =>
                    /\ Has(sent'.trace, "handler")
                    /\ sent'.upstream = 1
                    /\ sent'.resp.result =
                          TextResult(ComposeText(sent'.body.method.val, sent'.body.params,
                                                 sent'.got))
        /\ ((sent'.pc = "done" \/ \E s \in Slots : reqs'[s] # reqs[s])
             /\ Has(NewEvents, "t1.set") /\ ~Has(NewEvents, "t2.get:hit")) =>
                    LET k == CacheKeyText(Acting.body.method.val, Acting.body.params)
                    IN  /\ T1Live(memoryCache', k)
                        /\ memoryCache'[k].v = Acting.result
                        /\ memoryCache'[k].v =
                              TextResult(ComposeText(Acting.body.method.val, Acting.body.params,
                                                     Acting.got)) ]_vars

\* The same request is in flight twice, each awaiting its own Vybe call.
C37_WitnessBothInFlight ==
    /\ reqs["r1"].pc = "upstream" /\ reqs["r2"].pc = "upstream"
    /\ reqs["r1"].body = reqs["r2"].body
    /\ reqs["r1"].upstream = 1 /\ reqs["r2"].upstream = 1

\* Two requests that were the same have each put their own result in tier 1,
\* and tier 1 holds the result of the second.
C37_Witness ==
    /\ sent.pc = "done"
    /\ Has(sent.trace, "handler") /\ Has(sent.trace, "t1.set")
    /\ \E s \in Slots :
          /\ reqs[s].pc = "redis_set"
          /\ reqs[s].body = sent.body
          /\ Has(reqs[s].trace, "handler") /\ Has(reqs[s].trace, "t1.set")
          /\ reqs[s].result # sent.result
          /\ memoryCache[CacheKeyText(sent.body.method.val, sent.body.params)].v = sent.result

\* The entry a request that was answered from a cache was answered from.
Served ==
    LET k == CacheKeyText(sent'.body.method.val, sent'.body.params)
    IN  IF Has(sent'.trace, "t1.get:hit") THEN memoryCache[k] ELSE redisStore[k]

FromCache ==
    /\ sent'.pc = "done"
    /\ Has(sent'.trace, "t1.get:hit") \/ Has(sent'.trace, "t2.get:hit")

C36_WitnessTierOne ==
    /\ sent.pc = "done"
    /\ Has(sent.trace, "t1.get:hit")
    /\ sent.body.method = Str("solana_wallet_tokens")
    /\ \E k \in DOMAIN memoryCache :
          /\ memoryCache[k].method = sent.body.method
          /\ memoryCache[k].age = 120

\* The place of a call in the order of the providers: Vybe token details,
\* CoinGecko by contract, CoinGecko by symbol, Pyth through Vybe (the list
\* of its feeds, then the price of one).
ProviderRank(call) ==
    CASE call = "vybe.getTokenDetails" -> 1
      [] call = "coingecko.contract" -> 2
      [] call = "coingecko.simple" -> 3
      [] call = "vybe.getPythAccounts" -> 4
      [] call = "vybe.getPythPrice" -> 5

YieldsPrice(c) ==
    /\ c.call # "vybe.getPythAccounts"
    /\ c.out.kind = "data"
    /\ Truthy(c.out.price)

\* C33: the calls of a solana_token_price request that has passed its
\* validation are made in the order of the providers, each at most once, and
\* none after a call that has returned a price; the request is answered with
\* a result, which names that price, if and only if one of its calls has
\* returned a price, whatever the calls before it did, and with an error of
\* code -32000 otherwise.
C33_PriceProvidersInOrder ==
    /\ \A s \in Slots :
          reqs[s].pc = "price" =>
            LET calls == reqs[s].price.calls
            IN  /\ \A i \in 1..Len(calls) : ~YieldsPrice(calls[i])
                /\ \A i \in 1..Len(calls) :
                      ProviderRank(calls[i].call) < ProviderRank(reqs[s].price.awaiting)
    /\ (sent.pc = "done" /\ sent.body.method = Str("solana_token_price")
          /\ Has(sent.trace, "handler") /\ sent.thrown.code # Num(-32602)) =>
            LET calls == sent.price.calls
                n == Len(calls)
            IN  /\ \A i, j \in 1..n :
                      i < j => ProviderRank(calls[i].call) < ProviderRank(calls[j].call)
                /\ \A i \in 1..(n - 1) : ~YieldsPrice(calls[i])
                /\ sent.resp.kind = "result" <=> (n > 0 /\ YieldsPrice(calls[n]))
                /\ sent.resp.kind = "result" =>
                      \E name \in {"JUP", "sol", "XYZ", "BONK", "SOL", "M", WRAPPED_SOL_MINT} :
                          sent.resp.result =
                              TextResult("Current price of " \o name \o " is $"
                                         \o ToFixed6(calls[n].out.price.val) \o " USD.")
                /\ sent.resp.kind # "result" =>
                      sent.resp.kind = "error" /\ sent.resp.code = -32000

\* Vybe's token details have failed, CoinGecko has not known the contract,
\* and the price CoinGecko has for the symbol is the answer.
C33_Witness ==
    /\ sent.pc = "done"
    /\ sent.resp.kind = "result"
    /\ Len(sent.price.calls) = 3
    /\ sent.price.calls[1].out.kind = "throw"
    /\ sent.price.calls[2].out.kind = "status"
    /\ sent.price.calls[3].call = "coingecko.simple"
    /\ sent.trace = <<"t1.get:miss", "handler", "vybe.getTokenDetails", "coingecko.contract",
                      "coingecko.simple", "t1.set">>

\* Every provider has been asked and none has a price.
C33_WitnessNone ==
    /\ sent.pc = "done"
    /\ sent.resp.kind = "error"
    /\ Len(sent.price.calls) = 5
    /\ sent.resp.message = "Error fetching price: Vybe API request failed"

====
